---- MODULE Spec2Model ----
(***************************************************************************)
(* Checkpointed batch pipeline of up_app.py: the checkpoint directory, the *)
(* "Start Extraction" handler with its batch loop (sequential or parallel),*)
(* save_batch_to_disk, list_completed_batches, load_all_batches and the    *)
(* "Clear checkpoints" button.  One uploaded file (one Job, one checkpoint *)
(* directory) is shared by the browser sessions of Sessions; each session  *)
(* runs the script in its own thread.                                      *)
(***************************************************************************)
EXTENDS Integers, Sequences, FiniteSets, TLC

\* ----------------------------------------------------------------- bounds
\* Largest number of valid URLs in the uploaded file.
MaxUrls == 3
\* Largest batch size a session may configure (the slider, scaled down).
MaxBatchSize == 2
\* Number of clicks on "Start Extraction" or "Clear checkpoints" over all
\* sessions.
MaxClicks == 2
\* Number of injected failures (exceptions raised by the file system or the
\* Excel writer, script runs stopped half-way) over all sessions.
MaxFaults == 1

\* Browser sessions that have uploaded the same file (same FILE_ID).
Sessions == {"s1", "s2"}

VARIABLES
    total,              \* len(valid_urls) of the uploaded file
    dir,                \* checkpoints/<FILE_ID>/ : path -> content
    pc,                 \* per session: position in the start_button handler
    config,             \* per session: sidebar values (batch size, mode, workers)
    completed_batches,  \* per session: snapshot taken at line 447
    batch_idx,          \* per session: loop variable of line 453
    batch_results,      \* per session: list of Records of the current batch
    pending,            \* per session: idx_local of futures not yet completed
    fetched,            \* per session: URLs passed to session.get in this run
    log_lines,          \* per session: operation log of this run
    final_df,           \* per session: result of the merge at line 542
    clicks,             \* button clicks so far
    faults,             \* failures injected so far
    call,               \* a function under study: its name and arguments
    result              \* what that call returned

vars == <<total, dir, pc, config, completed_batches, batch_idx, batch_results,
          pending, fetched, log_lines, final_df, clicks, faults, call, result>>

\* The state of the batch pipeline.
pipeline_vars == <<total, dir, pc, config, completed_batches, batch_idx,
                   batch_results, pending, fetched, log_lines, final_df, clicks,
                   faults>>

\* No function call is being studied.
NoCall == [op |-> "none"]

NoResult == [op |-> "none"]

\* ------------------------------------------------------------ conversions
Digits == <<"0", "1", "2", "3", "4", "5", "6", "7", "8", "9">>

RECURSIVE str(_)
\* str(x) of a non-negative int, as the decimal string Python prints.
str(n) == IF n < 10 THEN Digits[n + 1] ELSE str(n \div 10) \o Digits[(n % 10) + 1]

\* The valid URLs of the uploaded file, in input order (1-based position):
\* pairwise distinct http URLs, each written as <<"http", its position>>.
valid_urls == [k \in 1..total |-> <<"http", k>>]

\* SwagelokExtractor.extract on a fetchable URL: the Record's identity fields.
extract(url, row_num) == [Row |-> row_num, URL |-> url]

\* The column-wise "" if None else str(x) of lines 510-511: Row becomes its
\* decimal string, URL is a string already.  (save_batch_to_disk applies the
\* same conversion once more, which leaves strings as they are.)
StringRow(rec) == [Row |-> str(rec.Row), URL |-> rec.URL]

\* batch_df = pd.DataFrame(batch_results), made string-typed.
StringRows(records) == [k \in 1..Len(records) |-> StringRow(records[k])]

\* ------------------------------------------------------------- directory
\* The content of a path: no such file, a file pd.read_csv raises on (zero
\* bytes: EmptyDataError), or a CSV file with its data rows.
NoFile == [exists |-> FALSE, readable |-> FALSE, rows |-> <<>>]

Unreadable == [exists |-> TRUE, readable |-> FALSE, rows |-> <<>>]

CsvFile(rows) == [exists |-> TRUE, readable |-> TRUE, rows |-> rows]

BatchIndices == 0..(MaxUrls - 1)

\* os.path.join(checkpoint_dir, f"{prefix}_{batch_num}.csv")
CheckpointPath(batch_num) == <<"batch", batch_num, ".csv">>

\* A save that writes in place, without the temporary file.
TmpPath_InPlace(batch_num) == CheckpointPath(batch_num)

\* path + ".tmp"
TmpPath(batch_num) == <<"batch", batch_num, ".csv.tmp">>

AllPaths == {<<"batch", i, sfx>> : i \in BatchIndices, sfx \in {".csv", ".csv.tmp"}}

\* glob.glob(os.path.join(checkpoint_dir, f"{prefix}_*.csv"))
glob_csv(d) == {p \in DOMAIN d : d[p].exists /\ p[3] = ".csv"}

list_completed_batches(d) == {p[2] : p \in glob_csv(d)}

\* pd.read_csv(f, dtype=str) returns instead of raising.
Readable(content) == content.exists /\ content.readable

RECURSIVE ConcatFrom(_, _)
\* pd.concat of the readable files, walked in batch-index order from i.
ConcatFrom(d, i) ==
    IF i > MaxUrls - 1 THEN <<>>
    ELSE (IF CheckpointPath(i) \in glob_csv(d) /\ Readable(d[CheckpointPath(i)])
          THEN d[CheckpointPath(i)].rows ELSE <<>>) \o ConcatFrom(d, i + 1)

load_all_batches(d) == ConcatFrom(d, 0)

\* What an interrupted write can leave behind: nothing flushed, or a prefix.
Truncations(rows) ==
    {Unreadable} \cup {CsvFile(SubSeq(rows, 1, k)) : k \in 0..(Len(rows) - 1)}

\* ------------------------------------------------------------ batch slicing
\* (total + batch_size - 1) // batch_size
num_batches(n, bs) == (n + bs - 1) \div bs

start_i(b, bs) == b * bs

Min(a, b) == IF a < b THEN a ELSE b

end_i(b, bs, n) == Min((b + 1) * bs, n)

\* valid_urls[start_i:end_i]
batch_urls(b, bs) ==
    [k \in 1..(end_i(b, bs, total) - start_i(b, bs)) |-> valid_urls[start_i(b, bs) + k]]

\* A row number that forgets the + 1.
row_num_ZeroBased(b, bs, idx_local) == start_i(b, bs) + idx_local

\* The row_num argument of extract: start_i + idx_local + 1.
row_num(b, bs, idx_local) == start_i(b, bs) + idx_local + 1

\* A loop that never skips a batch.
SkipBatch_Never(b, completed) == FALSE

\* if batch_idx in completed_batches: ... continue
SkipBatch(b, completed) == b \in completed

\* processing_mode.startswith("Parallel") and max_workers > 1
UseParallel(cfg) == cfg.processing_mode = "Parallel" /\ cfg.max_workers > 1

Configs ==
    {[batch_size |-> bs, processing_mode |-> "Sequential", max_workers |-> 1] :
        bs \in 1..MaxBatchSize}
    \cup
    {[batch_size |-> bs, processing_mode |-> "Parallel", max_workers |-> 2] :
        bs \in 1..MaxBatchSize}

\* --------------------------------------------------------------- initial
InitPipeline ==
    /\ total \in 1..MaxUrls
    /\ dir = [p \in AllPaths |-> NoFile]
    /\ pc = [s \in Sessions |-> "idle"]
    /\ config \in [Sessions -> Configs]
    /\ completed_batches = [s \in Sessions |-> {}]
    /\ batch_idx = [s \in Sessions |-> 0]
    /\ batch_results = [s \in Sessions |-> <<>>]
    /\ pending = [s \in Sessions |-> {}]
    /\ fetched = [s \in Sessions |-> {}]
    /\ log_lines = [s \in Sessions |-> <<>>]
    /\ final_df = [s \in Sessions |-> <<>>]
    /\ clicks = 0
    /\ faults = 0

Init ==
    /\ InitPipeline
    /\ call = NoCall
    /\ result = NoResult

Active(s) == pc[s] # "idle"

\* --------------------------------------------------------------- actions
\* Lines 437-450: a click on "Start Extraction" with the sidebar values cfg.
StartExtraction(s) ==
    /\ ~Active(s)
    /\ clicks < MaxClicks
    /\ clicks' = clicks + 1
    /\ pc' = [pc EXCEPT ![s] = "loop"]
    /\ completed_batches' = [completed_batches EXCEPT ![s] = list_completed_batches(dir)]
    /\ batch_idx' = [batch_idx EXCEPT ![s] = 0]
    /\ batch_results' = [batch_results EXCEPT ![s] = <<>>]
    /\ pending' = [pending EXCEPT ![s] = {}]
    /\ fetched' = [fetched EXCEPT ![s] = {}]
    /\ log_lines' = [log_lines EXCEPT ![s] = <<>>]
    /\ final_df' = [final_df EXCEPT ![s] = <<>>]
    /\ UNCHANGED <<total, dir, config, faults>>

InLoop(s) ==
    /\ pc[s] = "loop"
    /\ batch_idx[s] < num_batches(total, config[s].batch_size)

\* Lines 454-460: the batch is in the snapshot; continue with the next index.
SkipCompleted(s) ==
    /\ InLoop(s)
    /\ SkipBatch(batch_idx[s], completed_batches[s])
    /\ batch_idx' = [batch_idx EXCEPT ![s] = @ + 1]
    /\ UNCHANGED <<total, dir, pc, config, completed_batches, batch_results,
                   pending, fetched, log_lines, final_df, clicks, faults>>

\* Lines 462-471: slice the batch; in parallel mode submit one future per URL.
BeginBatch(s) ==
    LET urls == batch_urls(batch_idx[s], config[s].batch_size) IN
    /\ InLoop(s)
    /\ ~SkipBatch(batch_idx[s], completed_batches[s])
    /\ batch_results' = [batch_results EXCEPT ![s] = <<>>]
    /\ IF UseParallel(config[s])
       THEN /\ pc' = [pc EXCEPT ![s] = "parallel"]
            /\ pending' = [pending EXCEPT ![s] = 0..(Len(urls) - 1)]
            /\ fetched' = [fetched EXCEPT ![s] = @ \cup {urls[k] : k \in 1..Len(urls)}]
       ELSE /\ pc' = [pc EXCEPT ![s] = "sequential"]
            /\ UNCHANGED <<pending, fetched>>
    /\ UNCHANGED <<total, dir, config, completed_batches, batch_idx, log_lines,
                   final_df, clicks, faults>>

\* Lines 498-500: one iteration of the sequential loop.
SequentialExtract(s) ==
    LET bs == config[s].batch_size
        urls == batch_urls(batch_idx[s], bs)
        idx_local == Len(batch_results[s])
        url == urls[idx_local + 1]
        res == extract(url, row_num(batch_idx[s], bs, idx_local))
    IN
    /\ pc[s] = "sequential"
    /\ idx_local < Len(urls)
    /\ fetched' = [fetched EXCEPT ![s] = @ \cup {url}]
    /\ batch_results' = [batch_results EXCEPT ![s] = Append(@, res)]
    /\ pc' = [pc EXCEPT ![s] = IF idx_local + 1 = Len(urls) THEN "save" ELSE "sequential"]
    /\ UNCHANGED <<total, dir, config, completed_batches, batch_idx, pending,
                   log_lines, final_df, clicks, faults>>

\* A collection loop that stops at the first completed future.
AllCollected_First(still_pending) == TRUE

\* The for loop over as_completed(future_to_idx) ends, and the executor's
\* with block is left, once every submitted future has been yielded.
AllCollected(still_pending) == still_pending = {}

\* Lines 473-490: as_completed yields the future of idx_local, in any order.
FutureCompleted(s, idx_local) ==
    LET bs == config[s].batch_size
        urls == batch_urls(batch_idx[s], bs)
        res == extract(urls[idx_local + 1], row_num(batch_idx[s], bs, idx_local))
    IN
    /\ pc[s] = "parallel"
    /\ idx_local \in pending[s]
    /\ pending' = [pending EXCEPT ![s] = @ \ {idx_local}]
    /\ batch_results' = [batch_results EXCEPT ![s] = Append(@, res)]
    /\ pc' = [pc EXCEPT ![s] =
            IF AllCollected(pending[s] \ {idx_local}) THEN "save" ELSE "parallel"]
    /\ UNCHANGED <<total, dir, config, completed_batches, batch_idx, fetched,
                   log_lines, final_df, clicks, faults>>

\* The rows handed to save_batch_to_disk (lines 506-511).
batch_df(s) == StringRows(batch_results[s])

\* A loop that is left after the first batch it processed.
NextBatch_Break(s) ==
    /\ batch_idx' = [batch_idx EXCEPT ![s] = num_batches(total, config[s].batch_size)]
    /\ batch_results' = [batch_results EXCEPT ![s] = <<>>]
    /\ pc' = [pc EXCEPT ![s] = "loop"]

\* The loop moves on to the next batch index.
NextBatch(s) ==
    /\ batch_idx' = [batch_idx EXCEPT ![s] = @ + 1]
    /\ batch_results' = [batch_results EXCEPT ![s] = <<>>]
    /\ pc' = [pc EXCEPT ![s] = "loop"]

\* Lines 532-535: the except branch of the save block.
\* One more injected failure, within the budget.
Fault ==
    /\ faults < MaxFaults
    /\ faults' = faults + 1

LogFailed(s) ==
    log_lines' = [log_lines EXCEPT ![s] = Append(@, <<"Failed saving batch", batch_idx[s]>>)]

\* Line 149: batch_df.to_csv(tmp) writes the whole batch to the .tmp path.
SaveToCsv(s) ==
    /\ pc[s] = "save"
    /\ dir' = [dir EXCEPT ![TmpPath(batch_idx[s])] = CsvFile(batch_df(s))]
    /\ pc' = [pc EXCEPT ![s] = "replace"]
    /\ UNCHANGED <<total, config, completed_batches, batch_idx, batch_results,
                   pending, fetched, log_lines, final_df, clicks, faults>>

\* Line 149 raises (disk full, permissions): the .tmp path is left as it was
\* (open failed) or truncated; lines 532-535 log it and the loop goes on.
SaveToCsvRaises(s) ==
    /\ pc[s] = "save"
    /\ \E left \in {dir[TmpPath(batch_idx[s])]} \cup Truncations(batch_df(s)) :
          dir' = [dir EXCEPT ![TmpPath(batch_idx[s])] = left]
    /\ Fault
    /\ LogFailed(s)
    /\ NextBatch(s)
    /\ UNCHANGED <<total, config, completed_batches, pending, fetched, final_df, clicks>>

\* Line 151 and line 516: os.replace(tmp, path) moves the .tmp file over the
\* final path in one step and the save is logged; lines 518-530 then build
\* the in-memory Excel copy and its download button (nothing shared is
\* touched) and the loop goes on.
SaveReplace(s) ==
    /\ pc[s] = "replace"
    /\ dir[TmpPath(batch_idx[s])].exists
    /\ dir' = [dir EXCEPT ![CheckpointPath(batch_idx[s])] = dir[TmpPath(batch_idx[s])],
                          ![TmpPath(batch_idx[s])] = NoFile]
    /\ log_lines' = [log_lines EXCEPT ![s] = Append(@, <<"Saved batch", batch_idx[s]>>)]
    /\ NextBatch(s)
    /\ UNCHANGED <<total, config, completed_batches, pending, fetched, final_df,
                   clicks, faults>>

\* As SaveReplace, but lines 518-530 raise inside the same try block: the
\* batch is on disk and logged as saved, then logged as failed.
SaveReplaceExcelRaises(s) ==
    /\ pc[s] = "replace"
    /\ dir[TmpPath(batch_idx[s])].exists
    /\ Fault
    /\ dir' = [dir EXCEPT ![CheckpointPath(batch_idx[s])] = dir[TmpPath(batch_idx[s])],
                          ![TmpPath(batch_idx[s])] = NoFile]
    /\ log_lines' = [log_lines EXCEPT ![s] =
            Append(Append(@, <<"Saved batch", batch_idx[s]>>),
                   <<"Failed saving batch", batch_idx[s]>>)]
    /\ NextBatch(s)
    /\ UNCHANGED <<total, config, completed_batches, pending, fetched, final_df, clicks>>

\* Line 151 raises: FileNotFoundError when the .tmp path is gone, or any other
\* OSError; nothing is moved.
SaveReplaceRaises(s) ==
    /\ pc[s] = "replace"
    /\ IF dir[TmpPath(batch_idx[s])].exists THEN Fault ELSE UNCHANGED faults
    /\ LogFailed(s)
    /\ NextBatch(s)
    /\ UNCHANGED <<total, dir, config, completed_batches, pending, fetched,
                   final_df, clicks>>

\* Lines 538-542: the loop is over; merge what is on disk.
MergeAll(s) ==
    /\ pc[s] = "loop"
    /\ batch_idx[s] = num_batches(total, config[s].batch_size)
    /\ final_df' = [final_df EXCEPT ![s] = load_all_batches(dir)]
    /\ pc' = [pc EXCEPT ![s] = "done"]
    /\ UNCHANGED <<total, dir, config, completed_batches, batch_idx, batch_results,
                   pending, fetched, log_lines, clicks, faults>>

\* Lines 544-587: the results are shown and the script run ends; its locals
\* are gone.
ScriptEnds(s) ==
    /\ pc[s] = "done"
    /\ pc' = [pc EXCEPT ![s] = "idle"]
    /\ completed_batches' = [completed_batches EXCEPT ![s] = {}]
    /\ batch_idx' = [batch_idx EXCEPT ![s] = 0]
    /\ fetched' = [fetched EXCEPT ![s] = {}]
    /\ log_lines' = [log_lines EXCEPT ![s] = <<>>]
    /\ final_df' = [final_df EXCEPT ![s] = <<>>]
    /\ UNCHANGED <<total, dir, config, batch_results, pending, clicks, faults>>

\* The script run ends where it stands (crash, sleep, refresh, rerun): its
\* locals are gone, the directory stays.
Forget(s) ==
    /\ pc' = [pc EXCEPT ![s] = "idle"]
    /\ completed_batches' = [completed_batches EXCEPT ![s] = {}]
    /\ batch_idx' = [batch_idx EXCEPT ![s] = 0]
    /\ batch_results' = [batch_results EXCEPT ![s] = <<>>]
    /\ pending' = [pending EXCEPT ![s] = {}]
    /\ fetched' = [fetched EXCEPT ![s] = {}]
    /\ log_lines' = [log_lines EXCEPT ![s] = <<>>]
    /\ final_df' = [final_df EXCEPT ![s] = <<>>]
    /\ Fault
    /\ UNCHANGED <<total, config, clicks>>

Interrupt(s) ==
    /\ Active(s)
    /\ pc[s] # "done"
    /\ Forget(s)
    /\ UNCHANGED dir

\* The run ends inside to_csv: the .tmp path keeps what was flushed so far.
InterruptDuringWrite(s) ==
    /\ pc[s] = "save"
    /\ \E left \in Truncations(batch_df(s)) :
          dir' = [dir EXCEPT ![TmpPath(batch_idx[s])] = left]
    /\ Forget(s)

\* Lines 424-430: "Clear checkpoints" removes every batch_*.csv; the button is
\* drawn only when the listing of line 400 is not empty.
ClearCheckpoints(s) ==
    /\ ~Active(s)
    /\ list_completed_batches(dir) # {}
    /\ clicks < MaxClicks
    /\ clicks' = clicks + 1
    /\ dir' = [p \in AllPaths |-> IF p \in glob_csv(dir) THEN NoFile ELSE dir[p]]
    /\ UNCHANGED <<total, pc, config, completed_batches, batch_idx, batch_results,
                   pending, fetched, log_lines, final_df, faults>>

\* The steps of a started run.
RunStep(s) ==
    \/ SkipCompleted(s)
    \/ BeginBatch(s)
    \/ SequentialExtract(s)
    \/ \E idx_local \in pending[s] : FutureCompleted(s, idx_local)
    \/ SaveToCsv(s)
    \/ SaveToCsvRaises(s)
    \/ SaveReplace(s)
    \/ SaveReplaceRaises(s)
    \/ SaveReplaceExcelRaises(s)
    \/ MergeAll(s)
    \/ ScriptEnds(s)
    \/ Interrupt(s)
    \/ InterruptDuringWrite(s)

\* Sessions run in their own threads: runs of the same file may overlap.
Next ==
    /\ \E s \in Sessions :
          \/ StartExtraction(s)
          \/ RunStep(s)
          \/ ClearCheckpoints(s)
    /\ UNCHANGED <<call, result>>

Spec == Init /\ [][Next]_vars

\* One writer at a time: a run clicks only while no other run is going on.
OthersIdle(s) == \A o \in Sessions \ {s} : ~Active(o)

NextSingle ==
    /\ \E s \in Sessions :
          \/ OthersIdle(s) /\ StartExtraction(s)
          \/ RunStep(s)
          \/ ClearCheckpoints(s)
    /\ UNCHANGED <<call, result>>

SpecSingle == Init /\ [][NextSingle]_vars

\* Re-runs of one Job under one configuration: every session has the same
\* sidebar values, runs do not overlap, nothing is cleared.
InitResume == Init /\ \A s, o \in Sessions : config[s] = config[o]

NextResume ==
    /\ \E s \in Sessions :
          \/ OthersIdle(s) /\ StartExtraction(s)
          \/ RunStep(s)
    /\ UNCHANGED <<call, result>>

SpecResume == InitResume /\ [][NextResume]_vars

\* ------------------------------------------------------------ claim helpers
\* 1-based position of a URL in valid_urls.
PositionOf(url) == url[2]

\* Batch index of a URL under batch size bs.
BatchOfUrl(url, bs) == (PositionOf(url) - 1) \div bs

\* The number a decimal string of the model stands for.
IntOf(text) == CHOOSE n \in 0..(MaxUrls + 1) : str(n) = text

\* Batch indices that appear in a run's operation log.
Logged(s) == {log_lines[s][k][2] : k \in 1..Len(log_lines[s])}

NoFailureLogged(s) ==
    \A k \in 1..Len(log_lines[s]) : log_lines[s][k][1] = "Saved batch"

\* What one uninterrupted Sequential run over all batches merges.
UninterruptedOutput == StringRows([k \in 1..total |-> extract(valid_urls[k], k)])

SortedByRow(rows) ==
    \A k \in 1..(Len(rows) - 1) : IntOf(rows[k].Row) < IntOf(rows[k + 1].Row)

\* ------------------------------------------------------------------ C1
\* C1: a run never passes to the Page Fetcher a URL of a batch whose index
\* was in the listing taken when the run started.
C1_NoRefetch ==
    \A s \in Sessions : \A u \in fetched[s] :
        BatchOfUrl(u, config[s].batch_size) \notin completed_batches[s]

\* A resumed run that has skipped a checkpointed batch and fetched others.
C1_Witness ==
    \E s \in Sessions :
        /\ fetched[s] # {}
        /\ \E b \in completed_batches[s] : b < batch_idx[s]

\* ------------------------------------------------------------------ C2
\* C2: a run that resumed over persisted batches, under the configuration of
\* the interrupted run, merges exactly what one uninterrupted run merges,
\* Record by Record and in the same order.
C2_ResumeEquivalence ==
    \A s \in Sessions :
        (/\ pc[s] = "done"
         /\ completed_batches[s] # {}
         /\ \E b \in 0..(num_batches(total, config[s].batch_size) - 1) :
                b \notin completed_batches[s]
         /\ NoFailureLogged(s))
            => final_df[s] = UninterruptedOutput

C4_SortedOnDisk ==
    \A b \in BatchIndices :
        Readable(dir[CheckpointPath(b)]) => SortedByRow(dir[CheckpointPath(b)].rows)

\* ------------------------------------------------------------------ C5
\* C5: whenever a run has merged, the merged rows are Rows 1..total, each
\* exactly once.
C5_RowCount ==
    \A s \in Sessions :
        pc[s] = "done" =>
            /\ Len(final_df[s]) = total
            /\ {final_df[s][k].Row : k \in 1..Len(final_df[s])}
                 = {str(k) : k \in 1..total}

\* ------------------------------------------------------------------ C6
\* C6: every batch index list_completed_batches returns has a checkpoint
\* file that load_all_batches can read.
C6_ListedAreReadable ==
    \A b \in list_completed_batches(dir) : Readable(dir[CheckpointPath(b)])

\* ------------------------------------------------------------------ C7
\* C7: once a checkpoint file exists its content never changes; it can only
\* be removed (the manual clear).
C7_Immutable ==
    [][\A b \in BatchIndices :
          dir[CheckpointPath(b)].exists =>
              dir'[CheckpointPath(b)] \in {dir[CheckpointPath(b)], NoFile}]_vars

\* ------------------------------------------------------------------ C8
\* save_batch_to_disk raised in this step of session s: the run was inside it
\* and the except branch logged the failure.
SaveRaised(s) ==
    /\ pc[s] \in {"save", "replace"}
    /\ log_lines'[s] = Append(log_lines[s], <<"Failed saving batch", batch_idx[s]>>)

\* C8: when save_batch_to_disk raises for batch i, no checkpoint changes, the
\* failure is logged, the run goes on with batch i+1, and batch i is not in
\* list_completed_batches.
C8_SaveFailureRetryable ==
    [][\A s \in Sessions :
          SaveRaised(s) =>
              /\ \A b \in BatchIndices : dir'[CheckpointPath(b)] = dir[CheckpointPath(b)]
              /\ pc'[s] = "loop"
              /\ batch_idx'[s] = batch_idx[s] + 1
              /\ batch_idx[s] \notin list_completed_batches(dir')]_vars

\* ------------------------------------------------------------------ C9
\* C9: within a run, futures in flight belong to the current batch only; the
\* save of a batch starts with all its Records collected; every batch before
\* a fetched URL's batch was skipped or its save was attempted; and saves are
\* logged in increasing batch index, all below the current index.
C9_BatchOrdering ==
    \A s \in Sessions :
        LET bs == config[s].batch_size IN
        /\ pending[s] # {} => pc[s] = "parallel"
        /\ \A idx_local \in pending[s] : idx_local < Len(batch_urls(batch_idx[s], bs))
        /\ \A u \in fetched[s] : BatchOfUrl(u, bs) <= batch_idx[s]
        /\ pc[s] \in {"save", "replace"} =>
              /\ pending[s] = {}
              /\ Len(batch_results[s]) = Len(batch_urls(batch_idx[s], bs))
        /\ \A u \in fetched[s] : \A b \in 0..(BatchOfUrl(u, bs) - 1) :
              b \in completed_batches[s] \cup Logged(s)
        /\ \A k \in 1..Len(log_lines[s]) :
              /\ log_lines[s][k][2] < batch_idx[s]
              /\ log_lines[s][k][2] \notin completed_batches[s]
              /\ k > 1 => log_lines[s][k - 1][2] <= log_lines[s][k][2]

\* A Parallel run about to save a later batch after an earlier save.
C9_Witness ==
    \E s \in Sessions :
        /\ UseParallel(config[s])
        /\ pc[s] = "save"
        /\ batch_idx[s] >= 1
        /\ Logged(s) # {}
        /\ Len(batch_results[s]) >= 1

\* ------------------------------------------------------------------ C10
\* ceil(n / bs) for bs >= 1, by its definition.
Ceil(n, bs) == CHOOSE q \in 0..n : q * bs >= n /\ (q = 0 \/ (q - 1) * bs < n)

\* C10: the batches are ceil(total/B) contiguous slices, batch i holding the
\* valid URLs at positions i*B+1 .. min((i+1)*B, total); every valid URL is
\* in exactly one batch; a Record's Row is the position of its URL.  The
\* slicing depends on total and the batch size only, both fixed for a run,
\* so it is stated where the run enters its loop; the Records are checked
\* wherever they are held.
C10_BatchPartition ==
    \A s \in Sessions :
        LET bs == config[s].batch_size
            n == num_batches(total, bs)
            urls == [b \in 0..(n - 1) |-> batch_urls(b, bs)]
            Slice == [b \in 0..(n - 1) |-> {urls[b][k] : k \in 1..Len(urls[b])}]
        IN
        /\ (pc[s] = "loop" /\ batch_idx[s] = 0) =>
              /\ n = Ceil(total, bs)
              /\ num_batches(0, bs) = 0
              /\ \A b \in 0..(n - 1) :
                    /\ Slice[b] = {valid_urls[k] : k \in (b * bs + 1)..Min((b + 1) * bs, total)}
                    /\ \A k \in 1..Len(urls[b]) :
                          row_num(b, bs, k - 1) = PositionOf(urls[b][k])
              /\ \A k \in 1..total :
                    Cardinality({b \in 0..(n - 1) : valid_urls[k] \in Slice[b]}) = 1
        /\ \A k \in 1..Len(batch_results[s]) :
              /\ batch_results[s][k].URL = valid_urls[batch_results[s][k].Row]
              /\ batch_results[s][k].URL \in Slice[batch_idx[s]]

\* A run collecting the short last batch of a total that B does not divide.
C10_Witness ==
    \E s \in Sessions :
        /\ total % config[s].batch_size # 0
        /\ batch_idx[s] = num_batches(total, config[s].batch_size) - 1
        /\ batch_idx[s] >= 1
        /\ Len(batch_results[s]) >= 1

\* ------------------------------------------------- text (a str, by character)
\* A Python str is the sequence of its characters; None is a value of its own.
None == <<"<None>">>

UpperCase == <<"A", "B", "C", "D", "E", "F", "G", "H", "I", "J", "K", "L", "M",
               "N", "O", "P", "Q", "R", "S", "T", "U", "V", "W", "X", "Y", "Z">>

LowerCase == <<"a", "b", "c", "d", "e", "f", "g", "h", "i", "j", "k", "l", "m",
               "n", "o", "p", "q", "r", "s", "t", "u", "v", "w", "x", "y", "z">>

Range(f) == {f[i] : i \in DOMAIN f}

Letters == Range(UpperCase) \cup Range(LowerCase)

isalpha(c) == c \in Letters

isdigit(c) == c \in Range(Digits)

Whitespace == {" ", "\t", "\n", "\r"}

lower_char(c) ==
    IF c \in Range(UpperCase)
    THEN LowerCase[CHOOSE i \in DOMAIN UpperCase : UpperCase[i] = c]
    ELSE c

upper_char(c) ==
    IF c \in Range(LowerCase)
    THEN UpperCase[CHOOSE i \in DOMAIN LowerCase : LowerCase[i] = c]
    ELSE c

\* p.lower()
lower(p) == [i \in 1..Len(p) |-> lower_char(p[i])]

\* p.upper()
upper(p) == [i \in 1..Len(p) |-> upper_char(p[i])]

\* sub in p
Contains(p, sub) ==
    \E i \in 1..(Len(p) - Len(sub) + 1) : SubSeq(p, i, i + Len(sub) - 1) = sub

\* p.startswith(prefix)
startswith(p, prefix) ==
    Len(p) >= Len(prefix) /\ SubSeq(p, 1, Len(prefix)) = prefix

RECURSIVE lstrip(_)
lstrip(p) == IF p # <<>> /\ Head(p) \in Whitespace THEN lstrip(Tail(p)) ELSE p

RECURSIVE rstrip(_)
rstrip(p) ==
    IF p # <<>> /\ p[Len(p)] \in Whitespace THEN rstrip(SubSeq(p, 1, Len(p) - 1)) ELSE p

\* p.strip()
strip(p) == rstrip(lstrip(p))

RECURSIVE replace(_, _, _)
\* p.replace(old, new): non-overlapping occurrences, left to right.
replace(p, old, new) ==
    IF Len(p) < Len(old) THEN p
    ELSE IF SubSeq(p, 1, Len(old)) = old
         THEN new \o replace(SubSeq(p, Len(old) + 1, Len(p)), old, new)
         ELSE <<Head(p)>> \o replace(Tail(p), old, new)

RECURSIVE split(_, _)
\* p.split(sep) for a one-character sep: the pieces between the separators.
split(p, sep) ==
    IF \A i \in 1..Len(p) : p[i] # sep THEN <<p>>
    ELSE LET i == CHOOSE i \in 1..Len(p) : p[i] = sep /\ \A j \in 1..(i - 1) : p[j] # sep
         IN <<SubSeq(p, 1, i - 1)>> \o split(SubSeq(p, i + 1, Len(p)), sep)

RECURSIVE Join(_)
\* The characters as one string value.
Join(p) ==
    IF p = <<>> THEN ""
    ELSE IF Len(p) = 1 THEN p[1]
    ELSE Join(SubSeq(p, 1, Len(p) \div 2)) \o Join(SubSeq(p, Len(p) \div 2 + 1, Len(p)))

RECURSIVE RunEnd(_, _, _)
\* Last position of the longest run of characters of class that starts at i.
RunEnd(p, i, class) ==
    IF i <= Len(p) /\ p[i] \in class THEN RunEnd(p, i + 1, class) ELSE i - 1

\* re.search(<one of starts> + '([class]+)', u, re.I).group(1): the leftmost
\* match, its group taken greedily; None without a match.  Every member of
\* starts is lower case and n characters long.
SearchGroup(u, starts, n, class) ==
    LET hits == {i \in 1..(Len(u) - n) :
                    lower(SubSeq(u, i, i + n - 1)) \in starts /\ u[i + n] \in class}
    IN IF hits = {} THEN None
       ELSE LET i == CHOOSE i \in hits : \A j \in hits : i <= j
            IN SubSeq(u, i + n, RunEnd(u, i + n, class))

\* ------------------------------------------------------- part number helpers
\* [A-Z0-9.\-_/%] under re.I
UrlPartChars == Letters \cup Range(Digits) \cup {".", "-", "_", "/", "%"}

\* Lines 259-264: the part number a URL carries, or None.
_up(u) ==
    LET m1 == SearchGroup(u, {<<"/", "p", "/">>}, 3, UrlPartChars)
        m2 == SearchGroup(u, {<<"?", "p", "a", "r", "t", "=">>, <<"&", "p", "a", "r", "t", "=">>}, 6, UrlPartChars)
        m == IF m1 # None THEN m1 ELSE m2
    IN IF m = None THEN None
       ELSE strip(replace(replace(m, <<"%", "2", "F">>, <<"/">>), <<"%", "2", "5", "2", "F">>, <<"/">>))

\* re.sub(r'[.\-/]', '', p)
RemoveSeparators(p) == SelectSeq(p, LAMBDA c : c \notin {".", "-", "/"})

\* Python truth of an Optional[str]: neither None nor ''.
Truthy(p) == p # None /\ p # <<>>

\* A comparison of the two values as they are spelled.
_pm_Exact(p1, p2) == Truthy(p1) /\ Truthy(p2) /\ p1 = p2

\* Lines 266-271
_pm(p1, p2) ==
    IF ~Truthy(p1) \/ ~Truthy(p2) THEN FALSE
    ELSE lower(RemoveSeparators(p1)) = lower(RemoveSeparators(p2))

exclude == {<<"c", "h", "a", "r", "s", "e", "t">>, <<"u", "t", "f">>, <<"h", "t", "m", "l">>, <<"h", "t", "t", "p">>, <<"w", "w", "w">>, <<"t", "e", "x", "t">>}

\* Lines 273-281
_vp(p) ==
    IF p = None \/ ~(2 <= Len(p) /\ Len(p) <= 100) THEN FALSE
    ELSE LET has_alpha == \E i \in 1..Len(p) : isalpha(p[i])
             has_digit == \E i \in 1..Len(p) : isdigit(p[i])
         IN IF ~(has_alpha \/ (has_digit /\ Len(p) > 3)) THEN FALSE
            ELSE ~\E ex \in exclude : Contains(lower(p), ex)

RECURSIVE part_loop(_, _)
\* Lines 249-257: the loop over the "Part #:" matches of the page, in
\* document order, and the URL fallback behind it.
part_loop(matches, up) ==
    IF matches = <<>> THEN (IF Truthy(up) /\ _vp(up) THEN up ELSE None)
    ELSE LET c == strip(Head(matches)) IN
         IF c = <<>> THEN part_loop(Tail(matches), up)
         ELSE IF Truthy(up) /\ _pm(c, up) THEN c
         ELSE IF ~Truthy(up) /\ _vp(c) THEN c
         ELSE part_loop(Tail(matches), up)

\* Lines 247-257.  part_matches is what re.findall of line 249 finds in html.
_part(part_matches, url) == part_loop(part_matches, _up(url))

\* ------------------------------------------------------------ UNSPSC helpers
\* [\d.]
VersionChars == Range(Digits) \cup {"."}

\* re.search(r'UNSPSC\s*\(([\d.]+)\)', attr, re.I) matches with UNSPSC at i.
VersionAt(attr, i) ==
    LET open == RunEnd(attr, i + 6, Whitespace) + 1
        last == RunEnd(attr, open + 1, VersionChars)
    IN /\ i + 5 <= Len(attr)
       /\ upper(SubSeq(attr, i, i + 5)) = <<"U", "N", "S", "P", "S", "C">>
       /\ open <= Len(attr)
       /\ attr[open] = "("
       /\ last >= open + 1
       /\ last + 1 <= Len(attr)
       /\ attr[last + 1] = ")"

\* vm.group(1) of the leftmost match, or None.
VersionOf(attr) ==
    LET hits == {i \in 1..Len(attr) : VersionAt(attr, i)}
    IN IF hits = {} THEN None
       ELSE LET i == CHOOSE i \in hits : \A j \in hits : i <= j
                open == RunEnd(attr, i + 6, Whitespace) + 1
            IN SubSeq(attr, open + 1, RunEnd(attr, open + 1, VersionChars))

\* re.match(r'^\d{6,8}$', val)
IsCode(val) ==
    /\ 6 <= Len(val)
    /\ Len(val) <= 8
    /\ \A i \in 1..Len(val) : isdigit(val[i])

RECURSIVE int(_)
\* int(p) of a non-empty run of digits.
int(p) ==
    IF Len(p) = 1 THEN (CHOOSE d \in 0..9 : Digits[d + 1] = p[1])
    ELSE 10 * int(SubSeq(p, 1, Len(p) - 1)) + int(<<p[Len(p)]>>)

\* A version read as its first piece alone.
version_tuple_MajorOnly(v_str) ==
    LET pieces == split(v_str, ".")
    IN IF pieces[1] = <<>> THEN <<0>> ELSE <<int(pieces[1])>>

\* Lines 295-298: tuple(map(int, v.split('.'))); int('') raises, which makes
\* the whole tuple (0,).
version_tuple(v_str) ==
    LET pieces == split(v_str, ".")
    IN IF \E i \in 1..Len(pieces) : pieces[i] = <<>> THEN <<0>>
       ELSE [i \in 1..Len(pieces) |-> int(pieces[i])]

RECURSIVE TupleLess(_, _)
\* a < b for Python tuples of ints.
TupleLess(a, b) ==
    IF b = <<>> THEN FALSE
    ELSE IF a = <<>> THEN TRUE
    ELSE IF Head(a) # Head(b) THEN Head(a) < Head(b)
    ELSE TupleLess(Tail(a), Tail(b))

\* Lines 286-299: the entries of the table rows; a row is the texts of its td
\* cells, idx its position among the tr elements (0-based).
table_entries(rows) ==
    {[v |-> version_tuple(VersionOf(rows[idx + 1][1])),
      f |-> rows[idx + 1][1],
      c |-> rows[idx + 1][2],
      order |-> idx] :
        idx \in {k \in 0..(Len(rows) - 1) :
                    /\ Len(rows[k + 1]) >= 2
                    /\ startswith(upper(rows[k + 1][1]), <<"U", "N", "S", "P", "S", "C">>)
                    /\ VersionOf(rows[k + 1][1]) # None
                    /\ IsCode(rows[k + 1][2])}}

\* Lines 302-308: the entries of the fallback regex; unspsc_matches is what
\* re.findall of line 303 finds in html, pairs <<v_str, code>>.
regex_entries(unspsc_matches) ==
    {[v |-> version_tuple(unspsc_matches[idx + 1][1]),
      f |-> <<"U", "N", "S", "P", "S", "C", " ", "(">> \o unspsc_matches[idx + 1][1] \o <<")">>,
      c |-> unspsc_matches[idx + 1][2],
      order |-> idx] : idx \in 0..(Len(unspsc_matches) - 1)}

\* Line 314: max(e['v'] for e in all_entries)
max_v(all_entries) ==
    CHOOSE v \in {e.v : e \in all_entries} :
        \A e \in all_entries : ~TupleLess(v, e.v)

\* A selection that keeps the first of the rows that tie.
LastByOrder_First(entries) ==
    CHOOSE e \in entries : \A o \in entries : e.order <= o.order

\* Line 316: max(max_entries, key=lambda x: x['order'])
LastByOrder(entries) ==
    CHOOSE e \in entries : \A o \in entries : o.order <= e.order

\* Lines 284-317: <<Feature, Code>>, or <<None, None>>.
_unspsc_last(rows, unspsc_matches) ==
    LET from_table == table_entries(rows)
        all_entries == IF from_table # {} THEN from_table
                       ELSE regex_entries(unspsc_matches)
    IN IF all_entries = {} THEN <<None, None>>
       ELSE LET max_entries == {e \in all_entries : e.v = max_v(all_entries)}
                last_one == LastByOrder(max_entries)
            IN <<last_one.f, last_one.c>>

\* ---------------------------------------------------------- Record Processor
TIMEOUT == 20

COMPANY_NAME == "Swagelok"

\* The sentinel of an unresolved field.
NotFound == <<"N", "o", "t", " ", "F", "o", "u", "n", "d">>

\* A value that is not a str (a float cell that reached the extractor).
NotAStr == <<"<float>">>

\* isinstance(url, str)
IsStr(x) == x # None /\ x # NotAStr

\* Python truth of a URL value: None and '' are false.
UrlTruthy(url) == url # None /\ url # <<>>

\* safe_str(x)
safe_str(x) == IF x = None THEN <<>> ELSE x

\* What session.get and the parsing behind it can do.  A response carries
\* its status code and its page; a page is seen through the searches the
\* resolver runs on it: the "Part #:" matches of line 249, the td texts of
\* its tr rows, the matches of the fallback regex of line 303.  A page that
\* cannot be parsed makes BeautifulSoup raise with some message.
NoException == [kind |-> "none", message |-> <<>>]

\* requests.Timeout (ConnectTimeout, ReadTimeout)
IsTimeout(exc) == exc.kind = "Timeout"

\* A handler that catches the exceptions of requests only.
IsException_RequestsOnly(exc) == exc.kind \in {"Timeout", "ConnectionError"}

\* except Exception: every exception of a fetch or of a parse derives from it.
IsException(exc) == exc.kind \in {"Timeout", "ConnectionError", "ParserError"}

\* Lines 191-200
NewResult(url, row) ==
    [Row |-> row,
     Part |-> NotFound,
     Company |-> COMPANY_NAME,
     URL |-> IF UrlTruthy(url) THEN url ELSE <<"E", "m", "p", "t", "y">>,
     UNSPSC_Feature |-> NotFound,
     UNSPSC_Code |-> NotFound,
     Status |-> "Success",
     Error |-> ""]

\* A resolver result that is written without looking at it.
BothFound_Unchecked(feat, code) == TRUE

\* if feat and code
BothFound(feat, code) == Truthy(feat) /\ Truthy(code)

\* Lines 218-224: the Part of the Record, or the note that none was found.
SetPart(res, part) ==
    IF Truthy(part) THEN [res EXCEPT !.Part = part]
    ELSE IF res.Error = "" THEN [res EXCEPT !.Error = "Part not found"]
    ELSE res

\* Lines 227-232: Feature and Code of the Record, or the note that none was
\* found, added to a note that is already there.
SetUnspsc(res, fc) ==
    IF BothFound(fc[1], fc[2])
    THEN [res EXCEPT !.UNSPSC_Feature = fc[1], !.UNSPSC_Code = fc[2]]
    ELSE [res EXCEPT !.Error = IF res.Error # "" THEN res.Error \o ";UNSPSC not found"
                                ELSE "UNSPSC not found"]

\* Lines 217-234: the fields resolved from a parsed page.
Resolve(result0, page, url) ==
    SetUnspsc(SetPart(result0, _part(page.part_matches, url)),
              _unspsc_last(page.rows, page.unspsc_matches))

\* Lines 208-234: the body of the try block ends by returning a Record or by
\* raising.
TryBody(result0, url, fetch) ==
    IF fetch.kind # "response"
    THEN [raised |-> TRUE, exc |-> [kind |-> fetch.kind, message |-> fetch.message],
          record |-> result0]
    ELSE IF fetch.status_code # 200
    THEN [raised |-> FALSE, exc |-> NoException,
          record |-> [result0 EXCEPT !.Status = "HTTP " \o str(fetch.status_code),
                                     !.Error = "Status " \o str(fetch.status_code)]]
    ELSE IF fetch.page.broken
    THEN [raised |-> TRUE, exc |-> [kind |-> "ParserError", message |-> fetch.message],
          record |-> result0]
    ELSE [raised |-> FALSE, exc |-> NoException,
          record |-> Resolve(result0, fetch.page, url)]

\* safe_str(str(e))[:200]
ErrorText(message) ==
    Join(SubSeq(safe_str(message), 1, Min(200, Len(safe_str(message)))))

\* Lines 236-244: what becomes of the try block's outcome.
Handlers(body, timeout) ==
    IF ~body.raised
    THEN [raised |-> FALSE, fetch_issued |-> TRUE, record |-> body.record]
    ELSE IF IsTimeout(body.exc)
    THEN [raised |-> FALSE, fetch_issued |-> TRUE,
          record |-> [body.record EXCEPT
                         !.Status = "Timeout",
                         !.Error = "Timeout after " \o str(timeout) \o "s"]]
    ELSE IF IsException(body.exc)
    THEN [raised |-> FALSE, fetch_issued |-> TRUE,
          record |-> [body.record EXCEPT
                         !.Status = "Error",
                         !.Error = ErrorText(body.exc.message)]]
    ELSE [raised |-> TRUE, fetch_issued |-> TRUE, record |-> body.record]

\* Lines 202-205
InvalidUrl(url) == ~UrlTruthy(url) \/ ~IsStr(url) \/ ~startswith(url, <<"h", "t", "t", "p">>)

\* Lines 189-244.  The value tells whether the call raised, whether
\* session.get was called, and the Record returned.
extract_record(url, row, fetch, timeout) ==
    IF InvalidUrl(url)
    THEN [raised |-> FALSE, fetch_issued |-> FALSE,
          record |-> [NewResult(url, row) EXCEPT !.Status = "Invalid URL",
                                                 !.Error = "URL is empty or invalid"]]
    ELSE Handlers(TryBody(NewResult(url, row), url, fetch), timeout)

\* ------------------------------------------------- inputs of the extractor
\* URL values handed to extract: missing, empty, not a str, other schemes,
\* an upper-case scheme, and http(s) URLs with and without a part in them.
UrlPool ==
    {None, <<>>, NotAStr,
     <<"f", "t", "p", ":", "/", "/", "s", "/", "p", "/", "S", "S", "-", "4">>,
     <<"H", "T", "T", "P", ":", "/", "/", "s", "/", "p", "/", "S", "S", "-", "4">>,
     <<"s", "/", "p", "/", "S", "S", "-", "4">>,
     <<"h", "t", "t", "p", ":", "/", "/", "s", "/", "p", "/", "S", "S", "-", "4">>,
     <<"h", "t", "t", "p", "s", ":", "/", "/", "s", "/", "p", "/", "A">>,
     <<"h", "t", "t", "p", "s", ":", "/", "/", "s", "/", "c", "?", "p", "a", "r", "t", "=", "S", "S", "-", "4", "%", "2", "F", "1">>,
     <<"h", "t", "t", "p", "s", ":", "/", "/", "s", "/", "c">>}

\* The rows of a page's tables (texts of the td cells of each tr).
RowsPool ==
    {<<>>,
     << <<<<"B", "o", "d", "y", " ", "M", "a", "t", "e", "r", "i", "a", "l">>, <<"S", "t", "e", "e", "l">>>> >>,
     << <<<<"U", "N", "S", "P", "S", "C", " ", "(", "1", "7", ".", "1", "0", "0", "1", ")">>, <<"4", "0", "1", "8", "3", "1", "0", "3">>>>, <<<<"U", "N", "S", "P", "S", "C", " ", "(", "1", "7", ".", "1", "0", "0", "1", ")">>, <<"4", "0", "1", "8", "3", "1", "0", "2">>>> >>,
     << <<<<"U", "N", "S", "P", "S", "C", " ", "(", "4", ".", "0", "3", ")">>, <<"4", "0", "1", "8", "3", "1", "0", "3">>>>, <<<<"U", "N", "S", "P", "S", "C", " ", "(", "1", "7", ".", "1", ")">>, <<"4", "0", "1", "8", "3", "1", "0", "2">>>> >>}

\* The matches of the fallback regex in the page text.
UnspscMatchesPool ==
    {<<>>, << <<<<"1", "0", ".", "0">>, <<"4", "0", "1", "8", "3", "1", "0", "1">>>> >>}

\* The "Part #:" matches of a page, in document order.
PartMatchesPool ==
    {<<>>,
     <<<<"S", "S", "-", "4">>>>,
     <<<<"s", "s", ".", "4">>>>,
     <<<<"A">>>>,
     <<<<"X", "X", "-", "9">>, <<"S", "S", "4">>>>,
     <<<<"1", "2">>>>}

Pages ==
    {[part_matches |-> pm, rows |-> r, unspsc_matches |-> um, broken |-> FALSE] :
        pm \in PartMatchesPool, r \in RowsPool, um \in UnspscMatchesPool}

NoPage == [part_matches |-> <<>>, rows |-> <<>>, unspsc_matches |-> <<>>, broken |-> TRUE]

\* Messages of exceptions: empty, short, and longer than the 200 characters
\* that line 242 keeps.
LongMessage == [i \in 1..201 |-> "x"]

Messages == {<<>>, <<"b", "o", "o", "m">>, LongMessage}

StatusCodes == {200, 404, 500}

\* Everything session.get (line 208) and the parse (line 214) can do.
FetchOutcomes ==
    {[kind |-> "response", status_code |-> 200, page |-> p, message |-> <<>>] : p \in Pages}
    \cup
    {[kind |-> "response", status_code |-> 200, page |-> NoPage, message |-> m] : m \in Messages}
    \cup
    {[kind |-> "response", status_code |-> c, page |-> NoPage, message |-> <<>>] :
        c \in StatusCodes \ {200}}
    \cup
    {[kind |-> k, status_code |-> 0, page |-> NoPage, message |-> m] :
        k \in {"Timeout", "ConnectionError"}, m \in Messages}

\* ------------------------------------------------ specification of extract
ExtractCalls ==
    {[op |-> "extract", url |-> u, row |-> r, fetch |-> f] :
        u \in UrlPool, r \in 1..MaxUrls, f \in FetchOutcomes}

\* The pipeline at rest: one URL, sequential, nothing started.
InitAtRest ==
    /\ InitPipeline
    /\ total = 1
    /\ \A s \in Sessions :
          config[s] = [batch_size |-> 1, processing_mode |-> "Sequential", max_workers |-> 1]

InitExtract ==
    /\ InitAtRest
    /\ call \in ExtractCalls
    /\ result = NoResult

\* extractor.extract(url, row_num) with self.timeout = TIMEOUT
CallExtract ==
    /\ call.op = "extract"
    /\ result = NoResult
    /\ result' = [op |-> "extract",
                  ret |-> extract_record(call.url, call.row, call.fetch, TIMEOUT)]
    /\ UNCHANGED <<call, pipeline_vars>>

NextExtract == CallExtract

SpecExtract == InitExtract /\ [][NextExtract]_vars

\* --------------------------------------------------------------- claim C11
RecordFields ==
    {"Row", "Part", "Company", "URL", "UNSPSC_Feature", "UNSPSC_Code", "Status", "Error"}

\* A str that starts with the four characters h, t, t, p.
HttpUrl(u) ==
    /\ u \notin {None, NotAStr}
    /\ Len(u) >= 4
    /\ SubSeq(u, 1, 4) = <<"h", "t", "t", "p">>

\* C11: extract never raises and always returns one complete Record with a
\* Status.  An empty or non-http URL gives Status "Invalid URL" and no fetch;
\* for an http URL the fetch is issued and a response other than 200 gives
\* "HTTP <code>", a timeout gives "Timeout", any other exception gives
\* "Error"; only a 200 response that parses gives "Success", and only then
\* the Record holds what the Field Resolver returned.
C11_ExtractTotal ==
    result.op = "extract" =>
        LET ret == result.ret
            rec == ret.record
            f == call.fetch
        IN /\ ~ret.raised
           /\ DOMAIN rec = RecordFields
           /\ rec.Row = call.row
           /\ rec.Status # ""
           /\ ~HttpUrl(call.url) =>
                 /\ rec.Status = "Invalid URL"
                 /\ ~ret.fetch_issued
                 /\ rec.Part = NotFound
                 /\ rec.UNSPSC_Code = NotFound
           /\ HttpUrl(call.url) =>
                 /\ ret.fetch_issued
                 /\ (f.kind = "response" /\ f.status_code # 200) =>
                        rec.Status = "HTTP " \o str(f.status_code)
                 /\ f.kind = "Timeout" => rec.Status = "Timeout"
                 /\ (f.kind = "ConnectionError" \/ (f.kind = "response" /\ f.page.broken
                                                     /\ f.status_code = 200)) =>
                        rec.Status = "Error"
                 /\ (f.kind = "response" /\ f.status_code = 200 /\ ~f.page.broken) =>
                        rec.Status = "Success"
           /\ rec.Status = "Success" =>
                 /\ f.kind = "response"
                 /\ f.status_code = 200
           /\ rec.Status # "Success" =>
                 /\ rec.Part = NotFound
                 /\ rec.UNSPSC_Feature = NotFound
                 /\ rec.UNSPSC_Code = NotFound

\* A page that could not be parsed after a 200 response was turned into an
\* "Error" Record with the first 200 characters of the message.
C11_Witness ==
    /\ result.op = "extract"
    /\ call.fetch.kind = "response"
    /\ call.fetch.status_code = 200
    /\ call.fetch.page.broken
    /\ Len(call.fetch.message) = 201
    /\ result.ret.record.Status = "Error"
    /\ ~result.ret.raised

\* --------------------------------------------------------------- claim C19
\* C19: a field that cannot be resolved holds the literal "Not Found", never
\* a null or an empty value, and resolving it never raises: Part, UNSPSC
\* Feature and UNSPSC Code of every returned Record are either the value the
\* Field Resolver found on a parsed 200 page or "Not Found"; Feature and
\* Code are found or missing together.
C19_NotFoundSentinel ==
    result.op = "extract" =>
        LET rec == result.ret.record
            f == call.fetch
            parsed == HttpUrl(call.url) /\ f.kind = "response"
                      /\ f.status_code = 200 /\ ~f.page.broken
            part == IF parsed THEN _part(f.page.part_matches, call.url) ELSE None
            fc == IF parsed THEN _unspsc_last(f.page.rows, f.page.unspsc_matches)
                  ELSE <<None, None>>
        IN /\ ~result.ret.raised
           /\ \A k \in {"Part", "UNSPSC_Feature", "UNSPSC_Code"} :
                 rec[k] # None /\ rec[k] # <<>>
           /\ rec.Part = (IF part \notin {None, <<>>} THEN part ELSE NotFound)
           /\ rec.UNSPSC_Feature = (IF fc[1] \notin {None, <<>>} THEN fc[1] ELSE NotFound)
           /\ rec.UNSPSC_Code = (IF fc[2] \notin {None, <<>>} THEN fc[2] ELSE NotFound)
           /\ (rec.UNSPSC_Feature = NotFound) <=> (rec.UNSPSC_Code = NotFound)

\* A parsed page with a part number and no UNSPSC entry at all.
C19_Witness ==
    /\ result.op = "extract"
    /\ result.ret.record.Status = "Success"
    /\ result.ret.record.Part = <<"S", "S", "-", "4">>
    /\ result.ret.record.UNSPSC_Feature = NotFound
    /\ result.ret.record.UNSPSC_Code = NotFound
    /\ result.ret.record.Error = "UNSPSC not found"

\* ------------------------------------------------------ the uploaded column
MaxCells == 3

\* An empty spreadsheet cell as pandas reads it.
NaNCell == <<"<NaN>">>

\* pd.notna(x)
notna(x) == x # NaNCell

\* Cells of the URL column: empty, blank, URLs, a URL with spaces around it,
\* text that is no http URL.
CellPool ==
    {NaNCell, <<>>, <<" ">>,
     <<"h", "t", "t", "p", "s", ":", "/", "/", "s", "i", "t", "e", "/", "p", "/", "A", "B", "-", "1", "2">>,
     <<"h", "t", "t", "p", "s", ":", "/", "/", "s", "i", "t", "e", "/", "p", "/", "C", "D", "-", "3", "4">>,
     <<" ", "h", "t", "t", "p", "s", ":", "/", "/", "s", "i", "t", "e", "/", "p", "/", "C", "D", "-", "3", "4", " ">>,
     <<"s", "e", "e", " ", "h", "t", "t", "p", "d", "o", "c", "s">>}

RECURSIVE SeqsUpTo(_, _)
\* The sequences over S of length at most n.
SeqsUpTo(S, n) ==
    IF n = 0 THEN {<<>>}
    ELSE LET shorter == SeqsUpTo(S, n - 1)
         IN shorter \cup {Append(q, x) : q \in {r \in shorter : Len(r) = n - 1}, x \in S}

\* Lines 368-379: a column is taken as the URL column when one of its cells
\* contains "http" in any case.
url_column_detected(cells) ==
    \E i \in 1..Len(cells) : notna(cells[i]) /\ Contains(lower(cells[i]), <<"h", "t", "t", "p">>)

\* Line 385
urls_all(cells) ==
    [i \in 1..Len(cells) |->
        IF notna(cells[i]) /\ strip(cells[i]) # <<>> THEN strip(cells[i]) ELSE None]

\* Line 386: [u for u in urls_all if u]
valid_urls_of(all) == SelectSeq(all, LAMBDA u : u # None /\ u # <<>>)

\* The page every fetch of this specification returns: no "Part #:" text,
\* one UNSPSC row.
PlainPage ==
    [part_matches |-> <<>>,
     rows |-> << <<<<"U", "N", "S", "P", "S", "C", " ", "(", "1", "7", ".", "1", "0", "0", "1", ")">>, <<"4", "0", "1", "8", "3", "1", "0", "3">>>> >>,
     unspsc_matches |-> <<>>,
     broken |-> FALSE]

PlainFetch == [kind |-> "response", status_code |-> 200, page |-> PlainPage, message |-> <<>>]

\* Lines 453-504 for a sequential run from an empty checkpoint directory:
\* the calls of extract in the order they are made, batch after batch.
extract_calls(valid, bs) ==
    [k \in 1..Len(valid) |->
        LET b == (k - 1) \div bs
            idx_local == (k - 1) - start_i(b, bs)
        IN extract_record(valid[k], row_num(b, bs, idx_local), PlainFetch, TIMEOUT)]

InputCalls ==
    {[op |-> "input", cells |-> c, batch_size |-> bs] :
        c \in SeqsUpTo(CellPool, MaxCells), bs \in 1..MaxBatchSize}

InitInput ==
    /\ InitAtRest
    /\ call \in InputCalls
    /\ result = NoResult

\* Lines 368-380: no URL column, the script stops.
NoUrlColumn ==
    /\ call.op = "input"
    /\ result = NoResult
    /\ ~url_column_detected(call.cells)
    /\ result' = [op |-> "input", stopped |-> TRUE, records |-> <<>>, fetched |-> {}]
    /\ UNCHANGED <<call, pipeline_vars>>

\* Lines 385-387 and the Records of a run over the column.
ProcessColumn ==
    /\ call.op = "input"
    /\ result = NoResult
    /\ url_column_detected(call.cells)
    /\ LET valid == valid_urls_of(urls_all(call.cells))
           rets == extract_calls(valid, call.batch_size)
       IN result' = [op |-> "input", stopped |-> FALSE,
                     records |-> [k \in 1..Len(valid) |-> rets[k].record],
                     fetched |-> {valid[k] : k \in {j \in 1..Len(valid) : rets[j].fetch_issued}}]
    /\ UNCHANGED <<call, pipeline_vars>>

NextInput == NoUrlColumn \/ ProcessColumn

SpecInput == InitInput /\ [][NextInput]_vars

\* --------------------------------------------------------------- claim C12
\* str(x).strip() is empty, or the cell is NaN.
BlankCell(x) == x = NaNCell \/ \A i \in 1..Len(x) : x[i] \in Whitespace

\* C12: for every input list, each blank or NaN cell yields exactly one
\* Record, with Status "Invalid URL" and Part, UNSPSC Feature and UNSPSC
\* Code "Not Found", without a fetch, and every other cell yields a Record
\* whose Row is the cell's 1-based position in the input.
C12_BlankCellsKeepRows ==
    (result.op = "input" /\ ~result.stopped) =>
        \A i \in 1..Len(call.cells) :
            LET mine == {k \in 1..Len(result.records) : result.records[k].Row = i}
            IN /\ Cardinality(mine) = 1
               /\ \A k \in mine :
                     IF BlankCell(call.cells[i])
                     THEN /\ result.records[k].Status = "Invalid URL"
                          /\ result.records[k].Part = NotFound
                          /\ result.records[k].UNSPSC_Feature = NotFound
                          /\ result.records[k].UNSPSC_Code = NotFound
                     ELSE result.records[k].URL = strip(call.cells[i])

\* ---------------------------------------------- specification of _unspsc_last
MaxRows == 2

\* Version strings as they stand inside "UNSPSC (...)": two and more
\* pieces, a leading zero, a long minor, an empty piece.
VersionPool ==
    {<<"4", ".", "0", "3">>,
     <<"1", "0", ".", "0">>,
     <<"1", "7", ".", "1", "0", "0", "1">>,
     <<"1", "7", ".", "1">>,
     <<"1", "7", ".", "0", "1">>,
     <<"1", "7", ".", ".", "1">>}

CodePool == {<<"4", "0", "1", "8", "3", "1", "0", "3">>, <<"4", "0", "1", "8", "3", "1", "0", "2">>}

\* Table rows: UNSPSC rows of every version and code, a lower-case one, a
\* code that is too short, a row of another attribute, a row of one cell.
TableRowPool ==
    {<<<<"U", "N", "S", "P", "S", "C", " ", "(">> \o v \o <<")">>, c>> : v \in VersionPool, c \in CodePool}
    \cup
    {<<<<"u", "n", "s", "p", "s", "c", "(", "1", "7", ".", "1", "0", "0", "1", ")">>, <<"4", "0", "1", "8", "3", "1", "0", "1">>>>,
     <<<<"U", "N", "S", "P", "S", "C", " ", "(", "1", "7", ".", "1", "0", "0", "1", ")">>, <<"1", "2", "3", "4", "5">>>>,
     <<<<"B", "o", "d", "y", " ", "M", "a", "t", "e", "r", "i", "a", "l">>, <<"S", "t", "e", "e", "l">>>>,
     <<<<"U", "N", "S", "P", "S", "C", " ", "(", "1", "7", ".", "1", "0", "0", "1", ")">>>>}

\* The table of the product page the version rule was written for.
ExampleTable ==
    << <<<<"U", "N", "S", "P", "S", "C", " ", "(", "4", ".", "0", "3", ")">>, <<"4", "0", "1", "4", "1", "6", "0", "0">>>>,
       <<<<"U", "N", "S", "P", "S", "C", " ", "(", "1", "0", ".", "0", ")">>, <<"4", "0", "1", "4", "1", "6", "0", "4">>>>,
       <<<<"U", "N", "S", "P", "S", "C", " ", "(", "1", "7", ".", "1", "0", "0", "1", ")">>, <<"4", "0", "1", "8", "3", "1", "0", "3">>>>,
       <<<<"U", "N", "S", "P", "S", "C", " ", "(", "1", "7", ".", "1", ")">>, <<"4", "0", "1", "8", "3", "1", "0", "2">>>> >>

MatchPool ==
    {<<<<"1", "7", ".", "1", "0", "0", "1">>, <<"4", "0", "1", "8", "3", "1", "0", "3">>>>, <<<<"1", "7", ".", "1", "0", "0", "1">>, <<"4", "0", "1", "8", "3", "1", "0", "2">>>>, <<<<"4", ".", "0", "3">>, <<"4", "0", "1", "4", "1", "6", "0", "0">>>>}

\* Pages with a table, and pages without a usable table whose text holds
\* matches of the fallback regex.
UnspscCalls ==
    {[op |-> "_unspsc_last", rows |-> r, unspsc_matches |-> <<>>] :
        r \in SeqsUpTo(TableRowPool, MaxRows) \cup {ExampleTable}}
    \cup
    {[op |-> "_unspsc_last", rows |-> r, unspsc_matches |-> um] :
        r \in {<<>>, << <<<<"B", "o", "d", "y", " ", "M", "a", "t", "e", "r", "i", "a", "l">>, <<"S", "t", "e", "e", "l">>>> >>},
        um \in SeqsUpTo(MatchPool, MaxRows)}

InitUnspsc ==
    /\ InitAtRest
    /\ call \in UnspscCalls
    /\ result = NoResult

\* self._unspsc_last(soup, html)
CallUnspscLast ==
    /\ call.op = "_unspsc_last"
    /\ result = NoResult
    /\ result' = [op |-> "_unspsc_last",
                  ret |-> _unspsc_last(call.rows, call.unspsc_matches)]
    /\ UNCHANGED <<call, pipeline_vars>>

NextUnspsc == CallUnspscLast

SpecUnspsc == InitUnspsc /\ [][NextUnspsc]_vars

\* --------------------------------------------------------------- claim C15
\* The rows of the table that carry a versioned UNSPSC entry (1-based).
UnspscRows(rows) ==
    {j \in 1..Len(rows) :
        /\ Len(rows[j]) >= 2
        /\ startswith(upper(rows[j][1]), <<"U", "N", "S", "P", "S", "C">>)
        /\ VersionOf(rows[j][1]) # None
        /\ IsCode(rows[j][2])}

\* The version of a row or of a fallback match as a tuple of integers.
RowVersion(rows, j) == version_tuple(VersionOf(rows[j][1]))

MatchVersion(matches, j) == version_tuple(matches[j][1])

\* C15: among the entries with the highest version the last one in document
\* order wins, and Feature and Code both come from that one row (or from
\* that one match of the fallback, when the table has no entry).
C15_LastOccurrence ==
    result.op = "_unspsc_last" =>
        LET rows == call.rows
            um == call.unspsc_matches
            Q == UnspscRows(rows)
        IN IF Q # {}
           THEN \E j \in Q :
                   /\ \A k \in Q : ~TupleLess(RowVersion(rows, j), RowVersion(rows, k))
                   /\ \A k \in Q : k > j => RowVersion(rows, k) # RowVersion(rows, j)
                   /\ result.ret = <<rows[j][1], rows[j][2]>>
           ELSE IF um # <<>>
           THEN \E j \in 1..Len(um) :
                   /\ \A k \in 1..Len(um) : ~TupleLess(MatchVersion(um, j), MatchVersion(um, k))
                   /\ \A k \in 1..Len(um) : k > j => MatchVersion(um, k) # MatchVersion(um, j)
                   /\ result.ret = <<<<"U", "N", "S", "P", "S", "C", " ", "(">> \o um[j][1] \o <<")">>, um[j][2]>>
           ELSE result.ret = <<None, None>>

\* Two rows of the same highest version with different codes: the second
\* row's Feature and Code were returned.
C15_Witness ==
    /\ result.op = "_unspsc_last"
    /\ Len(call.rows) = 2
    /\ UnspscRows(call.rows) = {1, 2}
    /\ RowVersion(call.rows, 1) = RowVersion(call.rows, 2)
    /\ call.rows[1][2] # call.rows[2][2]
    /\ result.ret = <<call.rows[2][1], call.rows[2][2]>>

\* --------------------------------------------------------------- claim C16
\* What each version string of the pool is as a tuple of integers.
ExpectedTuple ==
    (<<"4", ".", "0", "3">> :> <<4, 3>>) @@
    (<<"1", "0", ".", "0">> :> <<10, 0>>) @@
    (<<"1", "7", ".", "1", "0", "0", "1">> :> <<17, 1001>>) @@
    (<<"1", "7", ".", "1">> :> <<17, 1>>) @@
    (<<"1", "7", ".", "0", "1">> :> <<17, 1>>) @@
    (<<"1", "7", ".", ".", "1">> :> <<0>>)

\* The version string inside a returned Feature.
FeatureVersion(f) == VersionOf(f)

\* C16: versions are ordered as tuples of integers, piece by piece: '4.03'
\* is (4, 3), '17.1001' is (17, 1001), '17.1' is (17, 1), so 17.1001 beats
\* 17.1, 10.0 and 4.03; the returned entry is one whose tuple no other
\* entry of the page exceeds.
C16_TupleOrdering ==
    /\ \A v \in VersionPool : version_tuple(v) = ExpectedTuple[v]
    /\ (result.op = "_unspsc_last" /\ result.ret # <<None, None>>) =>
          LET chosen == ExpectedTuple[FeatureVersion(result.ret[1])]
              Q == UnspscRows(call.rows)
          IN IF Q # {}
             THEN \A k \in Q :
                     ~TupleLess(chosen, ExpectedTuple[VersionOf(call.rows[k][1])])
             ELSE \A k \in 1..Len(call.unspsc_matches) :
                     ~TupleLess(chosen, ExpectedTuple[call.unspsc_matches[k][1]])

\* The example table: 17.1001 in the third row wins over the later 17.1.
C16_Witness ==
    /\ result.op = "_unspsc_last"
    /\ call.rows = ExampleTable
    /\ result.ret = <<<<"U", "N", "S", "P", "S", "C", " ", "(", "1", "7", ".", "1", "0", "0", "1", ")">>, <<"4", "0", "1", "8", "3", "1", "0", "3">>>>

\* ----------------------------------------------------- specification of _part
MaxPartMatches == 2

\* Texts the "Part #:" regex captures: one part number in several
\* spellings, another part number, one character, digits only, a word of
\* the page's markup.
CandidatePool ==
    {<<"S", "S", "-", "4">>,
     <<"s", "s", ".", "4">>,
     <<"S", "S", "4">>,
     <<"S", "S", "_", "4">>,
     <<"A">>,
     <<"X", "X", "-", "9">>,
     <<"1", "2">>,
     <<"1", "2", "3", "4">>,
     <<"c", "h", "a", "r", "s", "e", "t">>}

\* URLs with a part in the path, with one in the query, and without.
PartUrlPool ==
    {<<"h", "t", "t", "p", "s", ":", "/", "/", "s", "/", "p", "/", "S", "S", "-", "4">>,
     <<"h", "t", "t", "p", "s", ":", "/", "/", "s", "/", "p", "/", "A">>,
     <<"h", "t", "t", "p", "s", ":", "/", "/", "s", "/", "p", "/", "c", "h", "a", "r", "s", "e", "t">>,
     <<"h", "t", "t", "p", "s", ":", "/", "/", "s", "/", "c">>,
     <<"h", "t", "t", "p", "s", ":", "/", "/", "s", "/", "c", "?", "p", "a", "r", "t", "=", "S", "S", "%", "2", "F", "4">>,
     <<"h", "t", "t", "p", "s", ":", "/", "/", "s", "/", "p", "/", "1", "2">>,
     <<"h", "t", "t", "p", "s", ":", "/", "/", "s", "/", "p", "/", "S", "S", "_", "4">>}

PartCalls ==
    {[op |-> "_part", part_matches |-> pm, url |-> u] :
        pm \in SeqsUpTo(CandidatePool, MaxPartMatches), u \in PartUrlPool}

InitPart ==
    /\ InitAtRest
    /\ call \in PartCalls
    /\ result = NoResult

\* self._part(soup, html, url)
CallPart ==
    /\ call.op = "_part"
    /\ result = NoResult
    /\ result' = [op |-> "_part", ret |-> _part(call.part_matches, call.url)]
    /\ UNCHANGED <<call, pipeline_vars>>

NextPart == CallPart

SpecPart == InitPart /\ [][NextPart]_vars

\* --------------------------------------------------------------- claim C17
\* C17: every Part the resolver returns passes the validation predicate,
\* whichever strategy produced it: no returned Part has length 1 and none
\* contains 'charset' or another denylisted word.
C17_ResolvedPartIsValid ==
    (result.op = "_part" /\ result.ret # None) =>
        /\ _vp(result.ret)
        /\ Len(result.ret) # 1
        /\ ~Contains(lower(result.ret), <<"c", "h", "a", "r", "s", "e", "t">>)

\* --------------------------------------------------------------- claim C18
Separators == {".", "-", "/"}

\* A value with the separator characters removed, in lower case.
Normalised(p) == lower(SelectSeq(p, LAMBDA c : c \notin Separators))

\* The page-derived candidates that agree with the URL-derived value.
Agreeing(pm, up) == {j \in 1..Len(pm) : Normalised(pm[j]) = Normalised(up)}

\* C18 as stated: with page-derived candidates and a URL-derived value both
\* present, the page-derived value is returned when the two match after
\* normalisation, and the URL-derived value is returned when no
\* page-derived candidate matches.
C18_AsStated ==
    (result.op = "_part" /\ call.part_matches # <<>> /\ _up(call.url) \notin {None, <<>>}) =>
        LET pm == call.part_matches
            up == _up(call.url)
            M == Agreeing(pm, up)
        IN IF M # {}
           THEN result.ret = pm[CHOOSE j \in M : \A k \in M : j <= k]
           ELSE result.ret = up

\* C18, corrected: with page-derived candidates and a URL-derived value both
\* present, the first page-derived candidate that matches the URL-derived
\* value after normalisation is returned as the page spells it; when no
\* page-derived candidate matches, the URL-derived value is returned only
\* if it passes the validation predicate, and otherwise no Part is returned.
C18_CrossValidation ==
    (result.op = "_part" /\ call.part_matches # <<>> /\ _up(call.url) \notin {None, <<>>}) =>
        LET pm == call.part_matches
            up == _up(call.url)
            M == Agreeing(pm, up)
        IN IF M # {}
           THEN result.ret = pm[CHOOSE j \in M : \A k \in M : j <= k]
           ELSE result.ret = (IF _vp(up) THEN up ELSE None)

\* The page spells the part of the URL differently and, after a candidate
\* that does not match, the page's spelling was returned.
C18_Witness ==
    /\ result.op = "_part"
    /\ call.url = <<"h", "t", "t", "p", "s", ":", "/", "/", "s", "/", "p", "/", "S", "S", "-", "4">>
    /\ call.part_matches = <<<<"X", "X", "-", "9">>, <<"s", "s", ".", "4">>>>
    /\ result.ret = <<"s", "s", ".", "4">>

\* ------------------------------------------------------ checkpoint CSV text
\* The missing value of pandas.
NaN == <<"<NaN>">>

\* The strings pd.read_csv takes for a missing value by default.
\* (The rows of the run specifications above hold Row and URL only, a decimal
\* number and an http URL, which are outside this set and are read back as
\* written.)
NaValues ==
    {<<>>,
     <<"#", "N", "/", "A">>,
     <<"#", "N", "/", "A", " ", "N", "/", "A">>,
     <<"#", "N", "A">>,
     <<"-", "1", ".", "#", "I", "N", "D">>,
     <<"-", "1", ".", "#", "Q", "N", "A", "N">>,
     <<"-", "N", "a", "N">>,
     <<"-", "n", "a", "n">>,
     <<"1", ".", "#", "I", "N", "D">>,
     <<"1", ".", "#", "Q", "N", "A", "N">>,
     <<"<", "N", "A", ">">>,
     <<"N", "/", "A">>,
     <<"N", "A">>,
     <<"N", "U", "L", "L">>,
     <<"N", "a", "N">>,
     <<"N", "o", "n", "e">>,
     <<"n", "/", "a">>,
     <<"n", "a", "n">>,
     <<"n", "u", "l", "l">>}

\* The keys of a Record, which are the columns of batch_df in this order.
ColumnNames ==
    <<<<"R", "o", "w">>,
      <<"P", "a", "r", "t">>,
      <<"C", "o", "m", "p", "a", "n", "y">>,
      <<"U", "R", "L">>,
      <<"U", "N", "S", "P", "S", "C", " ", "F", "e", "a", "t", "u", "r", "e", " ", "(", "L", "a", "t", "e", "s", "t", ")">>,
      <<"U", "N", "S", "P", "S", "C", " ", "C", "o", "d", "e">>,
      <<"S", "t", "a", "t", "u", "s">>,
      <<"E", "r", "r", "o", "r">>>>

\* csv.QUOTE_MINIMAL: a field with the delimiter or the quote character in
\* it is written inside quotes, its quotes doubled.
to_csv_field(text) ==
    IF \E i \in 1..Len(text) : text[i] \in {",", "\""}
    THEN <<"\"">> \o replace(text, <<"\"">>, <<"\"", "\"">>) \o <<"\"">>
    ELSE text

RECURSIVE to_csv_line(_)
to_csv_line(fields) ==
    IF Len(fields) = 1 THEN to_csv_field(fields[1])
    ELSE to_csv_field(fields[1]) \o <<",">> \o to_csv_line(Tail(fields))

\* batch_df.to_csv(tmp, index=False, encoding="utf-8"): the header line and
\* one line per row.
to_csv(columns, rows) ==
    <<to_csv_line(columns)>> \o [k \in 1..Len(rows) |-> to_csv_line(rows[k])]

\* The commas of a line that stand outside quotes.
FieldBreaks(line) ==
    {i \in 1..Len(line) :
        /\ line[i] = ","
        /\ Cardinality({j \in 1..(i - 1) : line[j] = "\""}) % 2 = 0}

unquote(raw) ==
    IF raw # <<>> /\ raw[1] = "\""
    THEN replace(SubSeq(raw, 2, Len(raw) - 1), <<"\"", "\"">>, <<"\"">>)
    ELSE raw

\* The fields of one line as the C parser of read_csv splits them.
parse_line(line) ==
    LET br == FieldBreaks(line)
        brk(k) == IF k = 0 THEN 0
                  ELSE IF k = Cardinality(br) + 1 THEN Len(line) + 1
                  ELSE CHOOSE i \in br : Cardinality({j \in br : j < i}) = k - 1
    IN [k \in 1..(Cardinality(br) + 1) |->
            unquote(SubSeq(line, brk(k - 1) + 1, brk(k) - 1))]

\* A field of a data line under dtype=str with the default na_values and
\* keep_default_na: the text, or NaN for a text that is in NaValues.
read_csv_value(text) == IF text \in NaValues THEN NaN ELSE text

\* pd.read_csv(f, dtype=str)
read_csv(lines) ==
    [columns |-> parse_line(lines[1]),
     rows |-> [k \in 1..(Len(lines) - 1) |->
                  LET fields == parse_line(lines[k + 1])
                  IN [c \in 1..Len(fields) |-> read_csv_value(fields[c])]]]

\* Line 548: final_df.astype(str)
astype_str(v) == IF v = NaN THEN <<"n", "a", "n">> ELSE v

\* ------------------------------------- specification of the CSV round trip
\* Part values and Error texts of Records: a part, the sentinel, a part
\* spelled NA; no error, the resolver's notes, an exception text with a
\* comma and quotes, an exception text that reads nan.
CsvParts == {<<"S", "S", "-", "4">>, <<"N", "o", "t", " ", "F", "o", "u", "n", "d">>, <<"N", "A">>}

CsvErrors == {<<>>, <<"U", "N", "S", "P", "S", "C", " ", "n", "o", "t", " ", "f", "o", "u", "n", "d">>, <<"n", "o", " ", "\"", "x", "\"", ",", " ", "n", "o", " ", "y">>, <<"n", "a", "n">>}

\* Row k of a batch after lines 506-511: every value a str, in column order.
CsvRow(k, part, error) ==
    <<<<Digits[k + 1]>>, part, <<"S", "w", "a", "g", "e", "l", "o", "k">>, <<"h", "t", "t", "p", "s", ":", "/", "/", "s", "/", "p", "/", "S", "S", "-", "4">>,
      <<"N", "o", "t", " ", "F", "o", "u", "n", "d">>, <<"N", "o", "t", " ", "F", "o", "u", "n", "d">>,
      IF error \in {<<>>, <<"U", "N", "S", "P", "S", "C", " ", "n", "o", "t", " ", "f", "o", "u", "n", "d">>} THEN <<"S", "u", "c", "c", "e", "s", "s">> ELSE <<"E", "r", "r", "o", "r">>,
      error>>

CsvBatches ==
    {[k \in 1..Len(q) |-> CsvRow(k, q[k][1], q[k][2])] :
        q \in SeqsUpTo(CsvParts \X CsvErrors, MaxBatchSize) \ {<<>>}}

CsvCalls == {[op |-> "csv", batch_df |-> b] : b \in CsvBatches}

InitCsv ==
    /\ InitAtRest
    /\ call \in CsvCalls
    /\ result = NoResult

\* save_batch_to_disk(batch_df, ...) and then load_all_batches(...) on a
\* directory that holds this one checkpoint.
SaveAndLoad ==
    /\ call.op = "csv"
    /\ result = NoResult
    /\ result' = [op |-> "csv", df |-> read_csv(to_csv(ColumnNames, call.batch_df))]
    /\ UNCHANGED <<call, pipeline_vars>>

NextCsv == SaveAndLoad

SpecCsv == InitCsv /\ [][NextCsv]_vars

\* --------------------------------------------------------------- claim C20
\* C20: reading back with load_all_batches what save_batch_to_disk wrote
\* returns the same columns, the same number of rows in the same order, and
\* every field of every row equals, as a string, the value that was
\* written, empty Error fields and the "Not Found" sentinel included.
C20_RoundTripVerbatim ==
    result.op = "csv" =>
        /\ result.df.columns = ColumnNames
        /\ Len(result.df.rows) = Len(call.batch_df)
        /\ \A k \in 1..Len(call.batch_df) :
              /\ Len(result.df.rows[k]) = Len(ColumnNames)
              /\ \A c \in 1..Len(ColumnNames) :
                    astype_str(result.df.rows[k][c]) = call.batch_df[k][c]

\* ------------------------------------------- the parallel branch of a batch
\* What can happen to one worker's fetch: a page, a status other than 200,
\* a timeout, a connection error; and an exception that escapes extract
\* (raised inside its own except handler), which future.result() re-raises.
EscapingException == [kind |-> "Escaping", status_code |-> 0, page |-> NoPage, message |-> <<"b", "o", "o", "m">>]

WorkerOutcomes ==
    {PlainFetch,
     [kind |-> "response", status_code |-> 404, page |-> NoPage, message |-> <<>>],
     [kind |-> "Timeout", status_code |-> 0, page |-> NoPage, message |-> <<>>],
     [kind |-> "ConnectionError", status_code |-> 0, page |-> NoPage, message |-> <<"b", "o", "o", "m">>],
     EscapingException}

\* URLs of a batch; a URL may occur twice in valid_urls.
BatchUrlPool == {<<"h", "t", "t", "p", "s", ":", "/", "/", "s", "i", "t", "e", "/", "p", "/", "A", "B", "-", "1", "2">>, <<"s", "i", "t", "e", "/", "p", "/", "A", "B", "-", "1", "2">>}

\* One batch in Parallel mode: its index, its URLs, and what the fetch of
\* each URL will do.
ParallelCalls ==
    {[op |-> "parallel", batch_idx |-> b, batch_size |-> MaxBatchSize,
      batch_urls |-> u, fetch |-> f] :
        b \in 0..1,
        u \in SeqsUpTo(BatchUrlPool, MaxBatchSize) \ {<<>>},
        f \in UNION {[1..n -> WorkerOutcomes] : n \in 1..MaxBatchSize}}

InitParallel ==
    /\ InitAtRest
    /\ call \in {c \in ParallelCalls : Len(c.batch_urls) = Len(c.fetch)}
    /\ result = NoResult

\* Lines 470-471: one future per URL of the batch.
Submit ==
    /\ call.op = "parallel"
    /\ result = NoResult
    /\ result' = [op |-> "parallel",
                  pending |-> 0..(Len(call.batch_urls) - 1),
                  batch_results |-> <<>>,
                  exited |-> FALSE]
    /\ UNCHANGED <<call, pipeline_vars>>

\* Lines 475-487: res of the future with index idx_local.
future_res(idx_local) ==
    LET url == call.batch_urls[idx_local + 1]
        row == row_num(call.batch_idx, call.batch_size, idx_local)
        fetch == call.fetch[idx_local + 1]
    IN IF fetch = EscapingException /\ UrlTruthy(url) /\ startswith(url, <<"h", "t", "t", "p">>)
       THEN [Row |-> row,
             Part |-> NotFound,
             Company |-> COMPANY_NAME,
             URL |-> url,
             UNSPSC_Feature |-> NotFound,
             UNSPSC_Code |-> NotFound,
             Status |-> "Error",
             Error |-> Join(safe_str(fetch.message))]
       ELSE extract_record(url, row, fetch, TIMEOUT).record

\* A pool that drops the futures still waiting when one of them failed.
StillPending_CancelOnFailure(waiting, idx_local, res) ==
    IF res.Status \in {"Timeout", "Error"} THEN {} ELSE waiting \ {idx_local}

\* The futures as_completed has not yielded yet.
StillPending(waiting, idx_local, res) == waiting \ {idx_local}

\* Lines 473-489: as_completed yields a finished future, in any order.
FutureYielded(idx_local) ==
    /\ result.op = "parallel"
    /\ idx_local \in result.pending
    /\ LET res == future_res(idx_local)
       IN result' = [result EXCEPT
                        !.batch_results = Append(@, res),
                        !.pending = StillPending(result.pending, idx_local, res)]
    /\ UNCHANGED <<call, pipeline_vars>>

\* Line 470: the with block is left when no future is outstanding.
ExecutorExit ==
    /\ result.op = "parallel"
    /\ result.pending = {}
    /\ ~result.exited
    /\ result' = [result EXCEPT !.exited = TRUE]
    /\ UNCHANGED <<call, pipeline_vars>>

NextParallel ==
    \/ Submit
    \/ \E idx_local \in 0..(MaxBatchSize - 1) : FutureYielded(idx_local)
    \/ ExecutorExit

SpecParallel == InitParallel /\ [][NextParallel]_vars

\* --------------------------------------------------------------- claim C13
\* The Record the URL at idx_local gets when it is processed on its own.
AloneRecord(idx_local) ==
    LET url == call.batch_urls[idx_local + 1]
        row == call.batch_idx * call.batch_size + idx_local + 1
        alone == extract_record(url, row, call.fetch[idx_local + 1], TIMEOUT).record
    IN IF call.fetch[idx_local + 1] = EscapingException /\ alone.Status # "Invalid URL"
       THEN [alone EXCEPT !.Status = "Error", !.Error = "boom"]
       ELSE alone

\* C13: in Parallel mode, for every completion order and every combination
\* of fetch outcomes in one batch, the collected results hold exactly one
\* Record per URL of the batch, each with the Row and the URL of its own
\* input, and a Timeout or Error of one Record neither cancels nor changes
\* the Record of a sibling: each Record is the one its URL gets alone.
C13_WorkerIsolation ==
    result.op = "parallel" =>
        LET n == Len(call.batch_urls)
            got == result.batch_results
        IN /\ \A j, k \in 1..Len(got) : got[j].Row = got[k].Row => j = k
           /\ \A k \in 1..Len(got) :
                 \E idx \in 0..(n - 1) :
                    /\ got[k].Row = call.batch_idx * call.batch_size + idx + 1
                    /\ got[k].URL = call.batch_urls[idx + 1]
                    /\ got[k] = AloneRecord(idx)
           /\ result.exited => Len(got) = n

\* A timeout came back first and its sibling was still fetched and resolved.
C13_Witness ==
    /\ result.op = "parallel"
    /\ result.exited
    /\ Len(result.batch_results) = 2
    /\ result.batch_results[1].Status = "Timeout"
    /\ result.batch_results[1].Row = call.batch_idx * call.batch_size + 2
    /\ result.batch_results[2].Status = "Success"
    /\ result.batch_results[2].Part = <<"A", "B", "-", "1", "2">>

\* ------------------------------------------- runs that are left to proceed
\* The steps a started run takes by itself: every fetch returns a Record
\* (extract never raises), every save succeeds.
Proceed(s) ==
    \/ SkipCompleted(s)
    \/ BeginBatch(s)
    \/ SequentialExtract(s)
    \/ \E idx_local \in pending[s] : FutureCompleted(s, idx_local)
    \/ SaveToCsv(s)
    \/ SaveReplace(s)
    \/ MergeAll(s)
    \/ ScriptEnds(s)

\* The process is stopped, at any point of the run.
Stop(s) == Interrupt(s) \/ InterruptDuringWrite(s)

NextLive ==
    \E s \in Sessions :
        \/ OthersIdle(s) /\ StartExtraction(s) /\ UNCHANGED <<call, result>>
        \/ Proceed(s) /\ UNCHANGED <<call, result>>
        \/ Stop(s) /\ UNCHANGED <<call, result>>

\* A run that is not stopped keeps taking its steps: every fetch returns,
\* fails or times out, every write ends.
SpecLive ==
    /\ Init
    /\ [][NextLive]_vars
    /\ \A s \in Sessions : WF_vars(Proceed(s) /\ UNCHANGED <<call, result>>)

\* --------------------------------------------------------------- claim C14
\* Every batch of the run's configuration is on disk and readable.
EveryBatchPersisted(s) ==
    \A i \in 0..(num_batches(total, config[s].batch_size) - 1) :
        /\ i \in list_completed_batches(dir)
        /\ Readable(dir[CheckpointPath(i)])

\* Every batch was in the listing taken at the start or was saved by the run.
EveryBatchAttempted(s) ==
    \A i \in 0..(num_batches(total, config[s].batch_size) - 1) :
        \/ i \in completed_batches[s]
        \/ \E k \in 1..Len(log_lines[s]) : log_lines[s][k] = <<"Saved batch", i>>

\* The merge step of the run has been reached.
AtMerge(s) == pc[s] = "done"

C29_StatusErrorAgree ==
    result.op = "extract" =>
        ((result.ret.record.Error = "") <=> (result.ret.record.Status = "Success"))

\* --------------------------------------------------------------- claim C30
\* The step of session s ends with "Failed saving batch i" as the newest
\* line of its log, i the batch the run was saving.
FailureReported(s) ==
    /\ pc[s] \in {"save", "replace"}
    /\ Len(log_lines'[s]) > Len(log_lines[s])
    /\ log_lines'[s][Len(log_lines'[s])] = <<"Failed saving batch", batch_idx[s]>>

\* C30: whenever a run reports "Failed saving batch i", the checkpoint file
\* of batch i does not exist at the end of that step and i is not in
\* list_completed_batches; and a batch whose checkpoint the run wrote is
\* never reported as failed.
C30_ReportedFailureNotDurable ==
    [][\A s \in Sessions :
          /\ FailureReported(s) =>
                /\ ~dir'[CheckpointPath(batch_idx[s])].exists
                /\ batch_idx[s] \notin list_completed_batches(dir')
          /\ \A j, k \in 1..Len(log_lines'[s]) :
                log_lines'[s][j][1] = "Saved batch" =>
                    log_lines'[s][k] # <<"Failed saving batch", log_lines'[s][j][2]>>]_vars

\* --------------------------------------------------------------- claim C27
\* The Rows of the URL slice that batch index i denotes under batch size bs.
SliceRows(i, bs) == {str(k) : k \in (start_i(i, bs) + 1)..end_i(i, bs, total)}

\* C27: every checkpoint a run skips holds exactly the Records of the URL
\* slice its batch index denotes under that run's batch size, and what the
\* run merges holds every Row once, also when the same file is restarted
\* with another batch size.
C27_CheckpointsMatchPartition ==
    \A s \in Sessions :
        /\ (pc[s] = "loop" /\ batch_idx[s] = 0) =>
              \A i \in completed_batches[s] :
                 (i < num_batches(total, config[s].batch_size)
                     /\ Readable(dir[CheckpointPath(i)])) =>
                    {dir[CheckpointPath(i)].rows[k].Row :
                        k \in 1..Len(dir[CheckpointPath(i)].rows)}
                      = SliceRows(i, config[s].batch_size)
        /\ (pc[s] = "done" /\ NoFailureLogged(s)) =>
              \A j, k \in 1..Len(final_df[s]) :
                 final_df[s][j].Row = final_df[s][k].Row => j = k

\* ======================================================= app.py: the Part chain
\* Lines 284-288 of app.py
exclude_keywords ==
    {<<"c", "h", "a", "r", "s", "e", "t">>,
     <<"u", "t", "f", "-", "8">>,
     <<"h", "t", "m", "l">>,
     <<"j", "a", "v", "a", "s", "c", "r", "i", "p", "t">>,
     <<"h", "t", "t", "p", ":", "/", "/">>,
     <<"h", "t", "t", "p", "s", ":", "/", "/">>,
     <<"w", "w", "w", ".">>,
     <<".", "c", "o", "m">>,
     <<".", "n", "e", "t">>,
     <<"e", "m", "a", "i", "l">>,
     <<"p", "h", "o", "n", "e">>,
     <<"a", "d", "d", "r", "e", "s", "s">>,
     <<"l", "o", "r", "e", "m">>,
     <<"i", "p", "s", "u", "m">>,
     <<"c", "o", "p", "y", "r", "i", "g", "h", "t">>,
     <<"s", "w", "a", "g", "e", "l", "o", "k", ".", "c", "o", "m">>,
     <<"p", "r", "o", "d", "u", "c", "t">>,
     <<"c", "a", "t", "a", "l", "o", "g">>}

\* [A-Z0-9.\-_/] under re.IGNORECASE
PartChars == Letters \cup Range(Digits) \cup {".", "-", "_", "/"}

\* Lines 263-299 of app.py, from the strip of line 263 on.
valid_stripped(part) ==
    /\ 3 <= Len(part) /\ Len(part) <= 100
    /\ \E i \in 1..Len(part) : isalpha(part[i]) \/ isdigit(part[i])
    /\ \E i \in 1..Len(part) : part[i] \in {"-", "."}
    /\ \A i \in 1..Len(part) : part[i] \in PartChars
    /\ ~\E keyword \in exclude_keywords : Contains(lower(part), keyword)
    /\ ~\A i \in 1..Len(part) : isdigit(part[i]) \/ part[i] = "-"

\* Lines 251-299 of app.py
_is_valid_swagelok_part(part) == part # None /\ valid_stripped(strip(part))

RECURSIVE first_valid(_)
\* The loop "for c in candidates: if self._is_valid_swagelok_part(c): return c"
\* of a strategy; None when the loop falls through.
first_valid(candidates) ==
    IF candidates = <<>> THEN None
    ELSE IF _is_valid_swagelok_part(Head(candidates)) THEN Head(candidates)
    ELSE first_valid(Tail(candidates))

\* Lines 160-173: the label matches of the three patterns, each stripped.
strategy_label(matches) ==
    first_valid([i \in 1..Len(matches) |-> strip(matches[i])])

\* Lines 208-220: the identifier each URL pattern finds, in the order of
\* url_patterns, with the two replacements and the strip of line 218.
url_candidates(url) ==
    LET m1 == SearchGroup(url, {<<"?", "p", "a", "r", "t", "=">>, <<"&", "p", "a", "r", "t", "=">>}, 6, UrlPartChars)
        m2 == SearchGroup(url, {<<"/", "p", "/">>}, 3, UrlPartChars)
        m3 == SearchGroup(url, {<<"/", "p", "a", "r", "t", "/">>}, 6, UrlPartChars)
    IN [i \in 1..Len(SelectSeq(<<m1, m2, m3>>, LAMBDA m : m # None)) |->
          strip(replace(replace(SelectSeq(<<m1, m2, m3>>, LAMBDA m : m # None)[i],
                                <<"%", "2", "F">>, <<"/">>), <<"%", "2", "5", "2", "F">>, <<"/">>))]

\* Lines 242-247: the loose scan accepts a match of 4 to 50 characters only.
strategy_text(matches) ==
    first_valid(SelectSeq(matches, LAMBDA m : Len(m) >= 4 /\ Len(m) <= 50))

RECURSIVE first_hit(_)
\* The first strategy, in the order given, that returned.
first_hit(found) ==
    IF found = <<>> THEN None
    ELSE IF Head(found) # None THEN Head(found)
    ELSE first_hit(Tail(found))

\* The chain with the URL examined before the page.
_extract_part_ultimate_UrlFirst(page, url) ==
    first_hit(<<first_valid(url_candidates(url)),
                strategy_label(page.label),
                first_valid(page.breadcrumb),
                first_valid(page.heading),
                first_valid(page.meta),
                first_valid(page.sku),
                strategy_text(page.text)>>)

\* Lines 155-249 of app.py.  The page is what each strategy reads of it:
\* label, the re.findall matches of part_patterns; breadcrumb, the text of the
\* last item each selector finds; heading, the first token of the title and of
\* each h1/h2; meta, the content of the part/product meta tags; sku, the
\* sku/productID/mpn of each JSON-LD block; text, the re.findall matches of
\* the loose pattern over the whole page.
_extract_part_ultimate(page, url) ==
    first_hit(<<strategy_label(page.label),
                first_valid(page.breadcrumb),
                first_valid(page.heading),
                first_valid(url_candidates(url)),
                first_valid(page.meta),
                first_valid(page.sku),
                strategy_text(page.text)>>)

\* A token of the page's markup, which the validation rejects.
Rejected == <<"h", "t", "m", "l", "-", "5", "5">>

\* A class name of 51 characters, which the validation accepts.
LongToken == <<"e", "l", "e", "m", "e", "n", "t", "o", "r", "-", "w", "i", "d", "g", "e", "t", "-", "c", "o", "n", "t", "a", "i", "n", "e", "r", "-", "w", "i", "t", "h", "-", "a", "-", "l", "o", "n", "g", "-", "c", "l", "a", "s", "s", "-", "n", "a", "m", "e", "-", "v", "2">>

\* What one strategy finds: nothing, a rejected text, a rejected text and
\* then the given one.
Finds(good) == {<<>>, <<Rejected>>, <<Rejected, good>>}

AppPartPages ==
    [label : Finds(<<"L", "B", "-", "1">>), breadcrumb : Finds(<<"B", "C", "-", "2">>), heading : Finds(<<"H", "D", "-", "3">>),
     meta : Finds(<<" ", "M", "T", "-", "5">>), sku : Finds(<<"S", "K", "-", "6">>),
     text : Finds(<<"T", "X", "-", "7">>) \cup {<<LongToken>>, <<LongToken, <<"T", "X", "-", "7">>>>}]

AppPartUrls ==
    {<<"h", "t", "t", "p", "s", ":", "/", "/", "s", "w", "a", "g", "e", "l", "o", "k", ".", "c", "o", "m", "/", "c">>,
     <<"h", "t", "t", "p", "s", ":", "/", "/", "s", "w", "a", "g", "e", "l", "o", "k", ".", "c", "o", "m", "/", "p", "/", "U", "R", "-", "4">>,
     <<"h", "t", "t", "p", "s", ":", "/", "/", "s", "w", "a", "g", "e", "l", "o", "k", ".", "c", "o", "m", "/", "p", "/", "U", "R", "-", "4", "?", "p", "a", "r", "t", "=", "h", "t", "m", "l", "-", "5", "5">>,
     <<"h", "t", "t", "p", "s", ":", "/", "/", "s", "w", "a", "g", "e", "l", "o", "k", ".", "c", "o", "m", "/", "p", "a", "r", "t", "/", "U", "R", "-", "4", "%", "2", "F", "A">>,
     <<"h", "t", "t", "p", "s", ":", "/", "/", "s", "w", "a", "g", "e", "l", "o", "k", ".", "c", "o", "m", "/", "p", "/", "h", "t", "m", "l", "-", "5", "5">>}

InitAppPart ==
    /\ InitAtRest
    /\ call \in {[op |-> "_extract_part_ultimate", page |-> p, url |-> u] :
                    p \in AppPartPages, u \in AppPartUrls}
    /\ result = NoResult

\* self._extract_part_ultimate(soup, html_text, url)
CallAppPart ==
    /\ call.op = "_extract_part_ultimate"
    /\ result = NoResult
    /\ result' = [op |-> "_extract_part_ultimate",
                  ret |-> _extract_part_ultimate(call.page, call.url)]
    /\ UNCHANGED <<call, pipeline_vars>>

NextAppPart == CallAppPart

SpecAppPart == InitAppPart /\ [][NextAppPart]_vars

\* --------------------------------------------------------------- claim C23
\* Every candidate of the page and the URL, in the order of the strategies:
\* label match, breadcrumb last item, title/heading token, URL-embedded
\* identifier, meta tag, structured-data SKU, loose full-text scan.
CandidatesInOrder(c) ==
    c.page.label \o c.page.breadcrumb \o c.page.heading \o url_candidates(c.url)
        \o c.page.meta \o c.page.sku \o c.page.text

\* The candidates with the full-text scan limited to 4..50 characters.
CandidatesScanLimited(c) ==
    c.page.label \o c.page.breadcrumb \o c.page.heading \o url_candidates(c.url)
        \o c.page.meta \o c.page.sku
        \o SelectSeq(c.page.text, LAMBDA m : Len(m) >= 4 /\ Len(m) <= 50)

\* ret is the first member of cs that passes the validation, None without one.
IsFirstValid(ret, cs) ==
    LET ok == {i \in 1..Len(cs) : _is_valid_swagelok_part(cs[i])}
    IN IF ok = {} THEN ret = None
       ELSE \E i \in ok : (\A j \in ok : i <= j) /\ ret = cs[i]

\* C23 as stated: _extract_part_ultimate returns the first candidate that
\* passes the validation when the strategies are tried in the fixed order
\* (label, breadcrumb, title/heading, URL, meta tag, structured-data SKU,
\* full-text scan), and None only if no strategy has a valid candidate.
C23_AsStated ==
    result.op = "_extract_part_ultimate" =>
        IsFirstValid(result.ret, CandidatesInOrder(call))

\* C23, amended: _extract_part_ultimate returns the first candidate that
\* passes the validation when the strategies are tried in the fixed order,
\* where the full-text scan offers only its matches of 4 to 50 characters; a
\* later strategy's candidate is returned only if every candidate of every
\* earlier strategy is absent or invalid, and None is returned only if no
\* candidate so offered is valid.
C23_StrategyChainOrder ==
    result.op = "_extract_part_ultimate" =>
        IsFirstValid(result.ret, CandidatesScanLimited(call))

\* The URL's identifier is returned although the meta tag, the SKU and the
\* text hold valid candidates, the earlier strategies having only a rejected one.
C23_Witness ==
    /\ result.op = "_extract_part_ultimate"
    /\ call.page.label = <<Rejected>>
    /\ call.page.breadcrumb = <<Rejected>>
    /\ call.page.heading = <<>>
    /\ call.page.meta = <<Rejected, <<" ", "M", "T", "-", "5">>>>
    /\ call.page.text = <<Rejected, <<"T", "X", "-", "7">>>>
    /\ call.url = <<"h", "t", "t", "p", "s", ":", "/", "/", "s", "w", "a", "g", "e", "l", "o", "k", ".", "c", "o", "m", "/", "p", "/", "U", "R", "-", "4", "?", "p", "a", "r", "t", "=", "h", "t", "m", "l", "-", "5", "5">>
    /\ result.ret = <<"U", "R", "-", "4">>

\* ============================================ app.py and Last_app.py: UNSPSC
\* Lines 377-383 of app.py: tuple(int(p) for p in v.split('.')), (0,) when
\* int raises.
_parse_version(v) ==
    IF \E i \in 1..Len(split(v, ".")) : split(v, ".")[i] = <<>> THEN <<0>>
    ELSE [i \in 1..Len(split(v, ".")) |-> int(split(v, ".")[i])]

\* versions.sort(key=..., reverse=True) followed by versions[0]: the sort is
\* stable, entries of equal key keep their order also under reverse=True, so
\* the first entry of the list is the earliest one no other key exceeds.
\* keys[i] is the key of entries[i].
SortedDescFirst(entries, keys) ==
    entries[CHOOSE i \in 1..Len(entries) :
                /\ \A j \in 1..Len(entries) : ~TupleLess(keys[i], keys[j])
                /\ \A j \in 1..(i - 1) : keys[j] # keys[i]]

\* Lines 308-321 of app.py: the table rows that become entries of versions.
smart_rows(rows) ==
    SelectSeq(rows, LAMBDA r : Len(r) >= 2 /\ VersionOf(r[1]) # None /\ IsCode(r[2]))

\* Lines 301-375 of app.py.  rows are the td texts of the tr elements,
\* unspsc_matches what re.findall of line 327 finds in html_text, codes the
\* codes read from the meta tags and, without any, from the JSON-LD blocks.
_extract_unspsc_smart(rows, unspsc_matches, codes) ==
    IF smart_rows(rows) # <<>>
    THEN SortedDescFirst(smart_rows(rows),
                         [i \in 1..Len(smart_rows(rows)) |->
                             _parse_version(VersionOf(smart_rows(rows)[i][1]))])
    ELSE IF unspsc_matches # <<>>
    THEN SortedDescFirst([i \in 1..Len(unspsc_matches) |->
                             <<<<"U", "N", "S", "P", "S", "C", " ", "(">> \o unspsc_matches[i][1] \o <<")">>, unspsc_matches[i][2]>>],
                         [i \in 1..Len(unspsc_matches) |-> _parse_version(unspsc_matches[i][1])])
    ELSE IF codes # <<>> THEN <<<<"U", "N", "S", "P", "S", "C">>, codes[1]>>
    ELSE <<None, None>>

\* re.search(r'\(([\d\.]+)\)', attr) of Last_app.py line 312: group(1) of the
\* leftmost match, None without one.
paren_version(attr) ==
    LET hits == {i \in 1..Len(attr) :
                    /\ attr[i] = "("
                    /\ RunEnd(attr, i + 1, VersionChars) >= i + 1
                    /\ RunEnd(attr, i + 1, VersionChars) + 1 <= Len(attr)
                    /\ attr[RunEnd(attr, i + 1, VersionChars) + 1] = ")"}
    IN IF hits = {} THEN None
       ELSE SubSeq(attr, (CHOOSE i \in hits : \A j \in hits : i <= j) + 1,
                   RunEnd(attr, (CHOOSE i \in hits : \A j \in hits : i <= j) + 1, VersionChars))

\* Lines 300-308 of Last_app.py: the (attr, val) pairs kept as entries.
unspsc_entries(rows) ==
    SelectSeq(rows, LAMBDA r : /\ Len(r) >= 2
                               /\ startswith(upper(strip(r[1])), <<"U", "N", "S", "P", "S", "C">>)
                               /\ IsCode(strip(r[2])))

\* The message of the exception the sort key of Last_app.py line 312 raises
\* for attr, empty when it raises none: None has no group, and int('') is no number.
key_raises(attr) ==
    IF paren_version(attr) = None
    THEN <<"'", "N", "o", "n", "e", "T", "y", "p", "e", "'", " ", "o", "b", "j", "e", "c", "t", " ", "h", "a", "s", " ", "n", "o", " ", "a", "t", "t", "r", "i", "b", "u", "t", "e", " ", "'", "g", "r", "o", "u", "p", "'">>
    ELSE IF \E i \in 1..Len(split(paren_version(attr), ".")) : split(paren_version(attr), ".")[i] = <<>>
    THEN <<"i", "n", "v", "a", "l", "i", "d", " ", "l", "i", "t", "e", "r", "a", "l", " ", "f", "o", "r", " ", "i", "n", "t", "(", ")", " ", "w", "i", "t", "h", " ", "b", "a", "s", "e", " ", "1", "0", ":", " ", "'", "'">>
    ELSE <<>>

\* Lines 299-314 of Last_app.py: the Feature and the Code chosen from the
\* table, 'Not Found' twice without an entry; raised is the message of the
\* exception that leaves the block, empty without one.  list.sort computes the
\* key of every entry, in list order, before it compares any.
last_app_unspsc(rows) ==
    LET entries == [i \in 1..Len(unspsc_entries(rows)) |->
                       <<strip(unspsc_entries(rows)[i][1]), strip(unspsc_entries(rows)[i][2])>>]
        bad == {i \in 1..Len(entries) : key_raises(entries[i][1]) # <<>>}
    IN IF entries = <<>>
       THEN [raised |-> <<>>, ret |-> <<NotFound, NotFound>>]
       ELSE IF bad # {}
       THEN [raised |-> key_raises(entries[CHOOSE i \in bad : \A j \in bad : i <= j][1]),
             ret |-> <<NotFound, NotFound>>]
       ELSE [raised |-> <<>>,
             ret |-> SortedDescFirst(entries,
                        [i \in 1..Len(entries) |-> _parse_version(paren_version(entries[i][1]))])]

\* Tables for the three resolvers, and pages without a table.
ResolverCalls ==
    {[op |-> "resolvers", rows |-> r, unspsc_matches |-> <<>>, codes |-> <<>>] :
        r \in SeqsUpTo(TableRowPool, MaxRows) \cup {ExampleTable}}
    \cup
    {[op |-> "resolvers", rows |-> <<>>, unspsc_matches |-> um, codes |-> c] :
        um \in SeqsUpTo(MatchPool, 1), c \in SeqsUpTo(CodePool, 1)}

\* No resolver has been called yet.
NotCalled ==
    [op |-> "resolvers", called |-> {}, up_app |-> <<None, None>>, app |-> <<None, None>>,
     Last_app |-> [raised |-> <<>>, ret |-> <<None, None>>]]

InitResolvers ==
    /\ InitAtRest
    /\ call \in ResolverCalls
    /\ result = NotCalled

\* up_app.py: self._unspsc_last(soup, html)
CallUpApp ==
    /\ result.op = "resolvers"
    /\ "up_app" \notin result.called
    /\ result' = [result EXCEPT !.called = @ \cup {"up_app"}, !.up_app = _unspsc_last(call.rows, call.unspsc_matches)]
    /\ UNCHANGED <<call, pipeline_vars>>

\* app.py line 145: self._extract_unspsc_smart(soup, html_text)
CallApp ==
    /\ result.op = "resolvers"
    /\ "app" \notin result.called
    /\ result' = [result EXCEPT
                    !.called = @ \cup {"app"},
                    !.app = _extract_unspsc_smart(call.rows, call.unspsc_matches, call.codes)]
    /\ UNCHANGED <<call, pipeline_vars>>

\* Last_app.py lines 299-314 on the same table
CallLastApp ==
    /\ result.op = "resolvers"
    /\ "Last_app" \notin result.called
    /\ result' = [result EXCEPT !.called = @ \cup {"Last_app"}, !.Last_app = last_app_unspsc(call.rows)]
    /\ UNCHANGED <<call, pipeline_vars>>

NextResolvers == CallUpApp \/ CallApp \/ CallLastApp

SpecResolvers == InitResolvers /\ [][NextResolvers]_vars

\* --------------------------------------------------------------- claim C24
\* A version of digits and single dots between them.
WellFormedVersion(v) ==
    /\ v # <<>>
    /\ \A i \in 1..Len(v) : v[i] \in VersionChars
    /\ \A i \in 1..Len(split(v, ".")) : split(v, ".")[i] # <<>>

\* Every row is a label 'UNSPSC (VERSION)' and a code of 6 to 8 digits.
WellFormedRows(rows) ==
    /\ rows # <<>>
    /\ \A j \in 1..Len(rows) :
          /\ Len(rows[j]) = 2
          /\ startswith(rows[j][1], <<"U", "N", "S", "P", "S", "C", " ", "(">>)
          /\ rows[j][1][Len(rows[j][1])] = ")"
          /\ WellFormedVersion(SubSeq(rows[j][1], 9, Len(rows[j][1]) - 1))
          /\ IsCode(rows[j][2])

\* C24: the three resolver variants agree: for every list of table rows
\* with well-formed 'UNSPSC (VERSION)' labels and 6-8 digit codes, also when
\* several rows share the maximum version, app.py _extract_unspsc_smart and
\* the inline resolver of Last_app.py return the same (Feature, Code) pair
\* as up_app.py _unspsc_last, the last occurrence of the maximum version.
C24_ResolversAgree ==
    (/\ result.op = "resolvers"
     /\ WellFormedRows(call.rows)
     /\ result.called = {"up_app", "app", "Last_app"}) =>
        /\ result.app = result.up_app
        /\ result.Last_app.raised = <<>>
        /\ result.Last_app.ret = result.up_app

\* =================================================== Last_app.py: the run
\* Last_app.py line 11
CHECKPOINT_INTERVAL == 100

\* Lines 273-279 of Last_app.py
row_default ==
    [Part |-> NotFound, Feature |-> NotFound, Code |-> NotFound,
     Status |-> <<"S", "u", "c", "c", "e", "s", "s">>, Error |-> <<>>]

\* text[:100]
first100(text) == SubSeq(text, 1, Min(100, Len(text)))

\* Lines 296-314 of Last_app.py: the page of a 200 response.  part_match is
\* m.group(1) of line 296, None without a match; unspsc is what the table
\* block of lines 299-314 did.
resolve_page(part_match, unspsc) ==
    IF unspsc.raised # <<>>
    THEN [row_default EXCEPT
            !.Part = IF part_match # None THEN strip(part_match) ELSE NotFound,
            !.Status = <<"E", "r", "r", "o", "r">>,
            !.Error = first100(unspsc.raised)]
    ELSE [row_default EXCEPT
            !.Part = IF part_match # None THEN strip(part_match) ELSE NotFound,
            !.Feature = unspsc.ret[1],
            !.Code = unspsc.ret[2]]

\* Lines 281-317 of Last_app.py: row_result for one URL.  fetch is what
\* session.get does for it.
process_row(url, fetch) ==
    IF url = <<>> \/ ~startswith(lower(url), <<"h", "t", "t", "p">>)
    THEN [row_default EXCEPT !.Status = <<"I", "n", "v", "a", "l", "i", "d", " ", "U", "R", "L">>, !.Error = <<"E", "m", "p", "t", "y", " ", "o", "r", " ", "i", "n", "v", "a", "l", "i", "d", " ", "U", "R", "L">>]
    ELSE IF fetch.kind = "exception"
    THEN [row_default EXCEPT !.Status = <<"E", "r", "r", "o", "r">>, !.Error = first100(fetch.message)]
    ELSE IF fetch.status_code # 200
    THEN [row_default EXCEPT !.Status = <<"H", "T", "T", "P", " ">> \o str(fetch.status_code),
                             !.Error = <<"S", "t", "a", "t", "u", "s", " ">> \o str(fetch.status_code)]
    ELSE resolve_page(fetch.part_match, last_app_unspsc(fetch.rows))

\* Lines 234-239 of Last_app.py: the columns the file lacks are added with ''
\* in every row; a column the file has keeps its cells, NaN where empty.
standardise(file) ==
    IF file.columns = "checkpoint" THEN file.rows
    ELSE [i \in 1..Len(file.rows) |->
             [URL |-> file.rows[i].URL, Part |-> <<>>, Feature |-> <<>>, Code |-> <<>>,
              Status |-> <<>>, Error |-> <<>>]]

\* A resume that starts at the last row with a Status.
start_idx_of_Inclusive(mode, df) ==
    IF mode = "Resume from checkpoint" /\ \E i \in 1..Len(df) : notna(df[i].Status)
    THEN (CHOOSE i \in 1..Len(df) :
             notna(df[i].Status) /\ \A j \in (i + 1)..Len(df) : ~notna(df[j].Status)) - 1
    ELSE 0

\* Lines 242-245 of Last_app.py: last_valid_index() is the 0-based index of
\* the last row whose Status is not NaN, None without one; the run starts
\* one past it.
start_idx_of(mode, df) ==
    IF mode = "Resume from checkpoint" /\ \E i \in 1..Len(df) : notna(df[i].Status)
    THEN CHOOSE i \in 1..Len(df) :
            notna(df[i].Status) /\ \A j \in (i + 1)..Len(df) : ~notna(df[j].Status)
    ELSE 0

\* Line 344 of Last_app.py
checkpoint_due(row, n) == (row % CHECKPOINT_INTERVAL) = 0 \/ row = n

\* What session.get does for a row: a page with one UNSPSC row, a page whose
\* table has a row 'UNSPSC' without a version before a well-formed row, a
\* 404 response, a refused connection.
LastAppFetches ==
    {[kind |-> "response", status_code |-> 200, part_match |-> <<"S", "S", "-", "4">>, message |-> <<>>,
      rows |-> << <<<<"U", "N", "S", "P", "S", "C", " ", "(", "1", "7", ".", "1", "0", "0", "1", ")">>, <<"4", "0", "1", "8", "3", "1", "0", "3">>>> >>],
     [kind |-> "response", status_code |-> 200, part_match |-> <<"S", "S", "-", "4">>, message |-> <<>>,
      rows |-> << <<<<"U", "N", "S", "P", "S", "C">>, <<"1", "2", "3", "4", "5", "6", "7", "8">>>>, <<<<"U", "N", "S", "P", "S", "C", " ", "(", "1", "7", ".", "1", "0", "0", "1", ")">>, <<"4", "0", "1", "8", "3", "1", "0", "3">>>> >>],
     [kind |-> "response", status_code |-> 404, part_match |-> None, message |-> <<>>, rows |-> <<>>],
     [kind |-> "exception", status_code |-> 0, part_match |-> None, message |-> <<"r", "e", "f", "u", "s", "e", "d">>, rows |-> <<>>]}

\* A row an earlier run processed, as read_excel returns it from the
\* checkpoint: the empty Error cell is NaN.
DoneRow(u) ==
    [URL |-> u, Part |-> <<"O", "L", "D", "-", "1">>, Feature |-> <<"U", "N", "S", "P", "S", "C", " ", "(", "1", ".", "0", ")">>, Code |-> <<"1", "1", "1", "1", "1", "1", "1", "1">>,
     Status |-> <<"S", "u", "c", "c", "e", "s", "s">>, Error |-> NaN]

\* A row no run has processed, as read_excel returns it from the checkpoint.
OpenRow(u) == [URL |-> u, Part |-> NaN, Feature |-> NaN, Code |-> NaN, Status |-> NaN, Error |-> NaN]

\* The URL cell of row i: an empty cell in row blank, a URL elsewhere.
UrlCell(i, blank) == IF i = blank THEN NaN ELSE <<"h", "t", "t", "p", "s", ":", "/", "/", "s", "/", "c">>

\* Uploaded files: a list of n URLs, and a checkpoint of n rows whose rows
\* 1..k carry a Status.
LastAppFiles ==
    {[columns |-> "urls", rows |-> [i \in 1..n |-> [URL |-> UrlCell(i, blank)]]] :
        n \in {3}, blank \in {0, 3}}
    \cup
    {[columns |-> "checkpoint",
      rows |-> [i \in 1..n |-> IF i <= k THEN DoneRow(UrlCell(i, blank)) ELSE OpenRow(UrlCell(i, blank))]] :
        n \in {3, CHECKPOINT_INTERVAL + 1}, k \in {0, 1, 2, CHECKPOINT_INTERVAL}, blank \in {0, 3}}

LastAppCalls ==
    {[op |-> "Last_app", mode |-> m, file |-> f, fetches |-> <<a, b>>] :
        m \in {"New upload", "Resume from checkpoint"},
        f \in {g \in LastAppFiles : g.columns = "checkpoint" \/ Len(g.rows) = 3},
        a \in LastAppFetches, b \in LastAppFetches}

InitLastApp ==
    /\ InitAtRest
    /\ call \in LastAppCalls
    /\ result = NoResult

\* What session.get does for the row at idx (0-based).
FetchAt(idx) == call.fetches[(idx % 2) + 1]

\* Lines 219-255 of Last_app.py: the script run after the upload, up to the
\* Start button.
UploadFile ==
    /\ call.op = "Last_app"
    /\ result = NoResult
    /\ result' = [op |-> "Last_app", pc |-> "button",
                  df |-> standardise(call.file),
                  start_idx |-> start_idx_of(call.mode, standardise(call.file)),
                  idx |-> 0, processed |-> <<>>, fetched |-> {}, checkpoints |-> <<>>]
    /\ UNCHANGED <<call, pipeline_vars>>

\* Lines 257-267: the Start button is clicked and the loop begins.
StartLastApp ==
    /\ result.op = "Last_app"
    /\ result.pc = "button"
    /\ result' = [result EXCEPT !.pc = "loop", !.idx = result.start_idx]
    /\ UNCHANGED <<call, pipeline_vars>>

\* The df after lines 320-324 wrote row_result into row idx.
df_with(df, idx, row_result) ==
    [df EXCEPT ![idx + 1] = [URL |-> df[idx + 1].URL, Part |-> row_result.Part,
                             Feature |-> row_result.Feature, Code |-> row_result.Code,
                             Status |-> row_result.Status, Error |-> row_result.Error]]

\* Whether lines 281-287 reach session.get for this URL.
IsFetched(url) == url # <<>> /\ startswith(lower(url), <<"h", "t", "t", "p">>)

\* Lines 267-354: one iteration of the loop, with the checkpoint at its end.
ProcessRow ==
    /\ result.op = "Last_app"
    /\ result.pc = "loop"
    /\ result.idx < Len(result.df)
    /\ result' = [result EXCEPT
          !.df = df_with(result.df, result.idx,
                         process_row(astype_str(result.df[result.idx + 1].URL), FetchAt(result.idx))),
          !.idx = result.idx + 1,
          !.processed = Append(@, result.idx + 1),
          !.fetched = IF IsFetched(astype_str(result.df[result.idx + 1].URL))
                      THEN @ \cup {result.idx + 1} ELSE @,
          !.checkpoints =
              IF checkpoint_due(result.idx + 1, Len(result.df))
              THEN Append(@, [row_num |-> result.idx + 1,
                              df |-> df_with(result.df, result.idx,
                                        process_row(astype_str(result.df[result.idx + 1].URL),
                                                    FetchAt(result.idx)))])
              ELSE @]
    /\ UNCHANGED <<call, pipeline_vars>>

\* Lines 356 and on: range(start_idx, total) is exhausted, the summary follows.
LoopEnds ==
    /\ result.op = "Last_app"
    /\ result.pc = "loop"
    /\ result.idx >= Len(result.df)
    /\ result' = [result EXCEPT !.pc = "summary"]
    /\ UNCHANGED <<call, pipeline_vars>>

NextLastApp == UploadFile \/ StartLastApp \/ ProcessRow \/ LoopEnds

SpecLastApp == InitLastApp /\ [][NextLastApp]_vars

\* --------------------------------------------------------------- claim C25
\* The rows this run fetched with a 200 response (1-based row numbers).
Rows200 ==
    {r \in Range(result.processed) :
        /\ r \in result.fetched
        /\ FetchAt(r - 1).kind = "response"
        /\ FetchAt(r - 1).status_code = 200}

\* C25: the Last_app.py resolver never raises on malformed rows: for a page
\* fetched with status 200 and any table rows, also a row whose first cell
\* starts with 'UNSPSC' without a parenthesised version and whose second cell
\* is a 6-8 digit code, the resolution completes without an exception, the
\* row's Status stays 'Success', and UNSPSC is either resolved from a
\* well-formed row or 'Not Found'.
C25_MalformedRowsTolerated ==
    result.op = "Last_app" =>
        \A r \in Rows200 :
            /\ last_app_unspsc(FetchAt(r - 1).rows).raised = <<>>
            /\ result.df[r].Status = <<"S", "u", "c", "c", "e", "s", "s">>
            /\ \/ result.df[r].Feature = NotFound /\ result.df[r].Code = NotFound
               \/ \E j \in 1..Len(FetchAt(r - 1).rows) :
                     /\ WellFormedRows(<<FetchAt(r - 1).rows[j]>>)
                     /\ FetchAt(r - 1).rows[j] = <<result.df[r].Feature, result.df[r].Code>>

\* --------------------------------------------------------------- claim C26
\* The rows of the uploaded file that carry a Status.
WithStatus(rows) == {i \in 1..Len(rows) : notna(rows[i].Status)}

\* A checkpoint in which exactly rows 1..k carry a Status, resumed.
ResumedCheckpoint ==
    /\ call.op = "Last_app"
    /\ call.mode = "Resume from checkpoint"
    /\ call.file.columns = "checkpoint"
    /\ WithStatus(call.file.rows) = 1..Cardinality(WithStatus(call.file.rows))

\* The row holds a result: its Status is neither missing nor empty.
HasResult(row) == notna(row.Status) /\ row.Status # <<>>

\* C26: in 'Resume from checkpoint' mode, given a checkpoint in which exactly
\* rows 1..k carry a Status, the run processes rows k+1..total in increasing
\* order, each exactly once, issues no fetch for rows 1..k and leaves their
\* Part, UNSPSC Feature, UNSPSC Code, Status and Error unchanged; every
\* checkpoint it emits (every 100th row and the last row) contains results for
\* all rows up to the row at which it was emitted.
C26_ResumeFrame ==
    (ResumedCheckpoint /\ result.op = "Last_app") =>
        /\ \A j \in 1..Len(result.processed) :
              result.processed[j] = Cardinality(WithStatus(call.file.rows)) + j
        /\ result.pc = "summary" =>
              Len(result.processed) = Len(result.df) - Cardinality(WithStatus(call.file.rows))
        /\ result.fetched \cap WithStatus(call.file.rows) = {}
        /\ \A i \in WithStatus(call.file.rows) : result.df[i] = call.file.rows[i]
        /\ \A c \in 1..Len(result.checkpoints) :
              \A r \in 1..result.checkpoints[c].row_num :
                 HasResult(result.checkpoints[c].df[r])
        /\ {result.checkpoints[c].row_num : c \in 1..Len(result.checkpoints)}
              = {r \in Range(result.processed) : r % 100 = 0 \/ r = Len(result.df)}

\* A checkpoint of 101 rows with a Status in row 1 was resumed: the run went
\* through rows 2..101 and emitted the checkpoints of row 100 and of row 101.
C26_Witness ==
    /\ ResumedCheckpoint
    /\ result.op = "Last_app"
    /\ result.pc = "summary"
    /\ WithStatus(call.file.rows) = {1}
    /\ Len(result.df) = 101
    /\ Len(result.processed) = 100
    /\ Len(result.checkpoints) = 2
    /\ result.checkpoints[1].row_num = 100
    /\ result.df[1].Part = <<"O", "L", "D", "-", "1">>

\* ==================================================== app.py: the session
\* Lines 119-125 of app.py
app_result(url) ==
    [Part |-> NotFound, Company |-> COMPANY_NAME, URL |-> url,
     Feature |-> NotFound, Code |-> NotFound]

\* Lines 136-149 of app.py: the two resolvers on the page of a 200 response.
app_resolve(res, part, fc) ==
    [res EXCEPT !.Part = IF Truthy(part) THEN part ELSE @,
                !.Feature = IF Truthy(fc[1]) /\ Truthy(fc[2]) THEN fc[1] ELSE @,
                !.Code = IF Truthy(fc[1]) /\ Truthy(fc[2]) THEN fc[2] ELSE @]

\* Lines 114-153 of app.py: extract(url).  fetch is what session.get does.
app_extract(url, fetch) ==
    IF ~(startswith(strip(url), <<"h", "t", "t", "p">>) /\ Contains(lower(strip(url)), <<"s", "w", "a", "g", "e", "l", "o", "k", ".", "c", "o", "m">>))
    THEN app_result(strip(url))
    ELSE IF fetch.kind # "response" \/ fetch.status_code # 200
    THEN app_result(strip(url))
    ELSE app_resolve(app_result(strip(url)),
                     _extract_part_ultimate(fetch.page, strip(url)),
                     _extract_unspsc_smart(fetch.rows, <<>>, <<>>))

\* Lines 562-569 of app.py: the record written when future.result raises.
app_fallback(url) == app_result(url)

\* st.session_state after lines 41-54, and after the Reset button (lines
\* 594-600).  final_df is None when is_none is true.
SessionDefaults ==
    [processing |-> FALSE, completed |-> FALSE, results |-> <<>>, progress |-> 0,
     total |-> 0, final_df |-> [is_none |-> TRUE, rows |-> <<>>]]

\* The page of a product with one UNSPSC row.
AppPage ==
    [label |-> <<<<"S", "S", "-", "4">>>>, breadcrumb |-> <<>>, heading |-> <<>>, meta |-> <<>>,
     sku |-> <<>>, text |-> <<>>]

\* A cell of the URL column with what happens to its worker: a product page
\* is fetched, the server answers 404, the cell is no Swagelok URL, the
\* future raises.
AppItems ==
    {[url |-> <<"h", "t", "t", "p", "s", ":", "/", "/", "s", "w", "a", "g", "e", "l", "o", "k", ".", "c", "o", "m", "/", "p", "/", "S", "S", "-", "4">>, kind |-> "response", status_code |-> 200,
      page |-> AppPage, rows |-> << <<<<"U", "N", "S", "P", "S", "C", " ", "(", "1", "7", ".", "1", "0", "0", "1", ")">>, <<"4", "0", "1", "8", "3", "1", "0", "3">>>> >>],
     [url |-> <<"h", "t", "t", "p", "s", ":", "/", "/", "s", "w", "a", "g", "e", "l", "o", "k", ".", "c", "o", "m", "/", "p", "/", "X", "X", "-", "9">>, kind |-> "response", status_code |-> 404,
      page |-> AppPage, rows |-> <<>>],
     [url |-> <<" ", "s", "e", "e", " ", "h", "t", "t", "p", " ", "d", "o", "c", "s">>, kind |-> "none", status_code |-> 0,
      page |-> AppPage, rows |-> <<>>],
     [url |-> <<"h", "t", "t", "p", "s", ":", "/", "/", "s", "w", "a", "g", "e", "l", "o", "k", ".", "c", "o", "m", "/", "p", "/", "Z", "Z", "-", "1">>, kind |-> "raises", status_code |-> 0,
      page |-> AppPage, rows |-> <<>>]}

InitApp ==
    /\ InitAtRest
    /\ call \in {[op |-> "app", items |-> q] : q \in SeqsUpTo(AppItems, MaxUrls) \ {<<>>}}
    /\ result = [op |-> "app", script |-> "idle", session |-> SessionDefaults,
                 results |-> <<>>, waiting |-> {}, obtained |-> <<>>]

\* Line 449 of app.py
all_urls == [i \in 1..Len(call.items) |-> call.items[i].url]

\* Lines 536-554: the Start button is offered and clicked; every URL is
\* submitted to the executor.
AppStart ==
    /\ result.op = "app"
    /\ result.script = "idle"
    /\ ~result.session.processing /\ ~result.session.completed
    /\ result' = [result EXCEPT
          !.script = "loop",
          !.session = [@ EXCEPT !.processing = TRUE, !.completed = FALSE, !.results = <<>>,
                                !.progress = 0, !.total = Len(all_urls)],
          !.results = <<>>,
          !.waiting = 1..Len(all_urls),
          !.obtained = <<>>]
    /\ UNCHANGED <<call, pipeline_vars>>

\* Lines 557-577: as_completed yields the future of the URL at position i,
\* its record is appended to the local list results and the progress is set.
AppFutureDone(i) ==
    /\ result.op = "app"
    /\ result.script = "loop"
    /\ i \in result.waiting
    /\ result' = [result EXCEPT
          !.results = Append(@, IF call.items[i].kind = "raises"
                                THEN app_fallback(all_urls[i])
                                ELSE app_extract(all_urls[i], call.items[i])),
          !.waiting = @ \ {i},
          !.session = [@ EXCEPT !.progress = Len(result.results) + 1]]
    /\ UNCHANGED <<call, pipeline_vars>>

\* Lines 583-589: the loop is over; the flags are set, the table is built
\* from the local list and the script reruns.
AppLoopEnds ==
    /\ result.op = "app"
    /\ result.script = "loop"
    /\ result.waiting = {}
    /\ result' = [result EXCEPT
          !.script = "idle",
          !.session = [@ EXCEPT !.processing = FALSE, !.completed = TRUE,
                                !.final_df = [is_none |-> FALSE, rows |-> result.results]],
          !.results = <<>>]
    /\ UNCHANGED <<call, pipeline_vars>>

\* The script run is stopped inside the loop of lines 556-577 (a rerun that a
\* widget of the page triggers, an exception): its local variables are gone,
\* st.session_state is kept.  obtained remembers the records the run had.
AppInterrupted ==
    /\ result.op = "app"
    /\ result.script = "loop"
    /\ result' = [result EXCEPT !.script = "idle", !.results = <<>>, !.waiting = {},
                                !.obtained = result.results]
    /\ UNCHANGED <<call, pipeline_vars>>

\* Lines 591-601: the Reset button is offered and clicked.
AppReset ==
    /\ result.op = "app"
    /\ result.script = "idle"
    /\ result.session.completed
    /\ result' = [result EXCEPT !.session = SessionDefaults, !.obtained = <<>>]
    /\ UNCHANGED <<call, pipeline_vars>>

NextApp ==
    \/ AppStart
    \/ \E i \in 1..MaxUrls : AppFutureDone(i)
    \/ AppLoopEnds
    \/ AppInterrupted
    \/ AppReset

SpecApp == InitApp /\ [][NextApp]_vars

\* --------------------------------------------------------------- claim C21
\* C21: progress is saved automatically in app.py: when the extraction run is
\* interrupted after i of the input URLs have completed (0 < i < total), the
\* i results already obtained remain available in the session afterwards, in
\* st.session_state.results or in st.session_state.final_df.
C21_ProgressSaved ==
    (/\ result.op = "app"
     /\ result.script = "idle"
     /\ 0 < Len(result.obtained)
     /\ Len(result.obtained) < Len(all_urls)) =>
        \A k \in 1..Len(result.obtained) :
            \/ \E j \in 1..Len(result.session.results) :
                  result.session.results[j] = result.obtained[k]
            \/ /\ ~result.session.final_df.is_none
               /\ \E j \in 1..Len(result.session.final_df.rows) :
                     result.session.final_df.rows[j] = result.obtained[k]

\* --------------------------------------------------------------- claim C22
\* C22: the final output order is the input order in app.py: the result table
\* of the parallel run holds exactly one record per input URL and lists them
\* in the original input order, for every order in which the futures complete.
C22_OutputInInputOrder ==
    (result.op = "app" /\ result.session.completed /\ ~result.session.final_df.is_none) =>
        /\ Len(result.session.final_df.rows) = Len(all_urls)
        /\ \A i \in 1..Len(all_urls) :
              result.session.final_df.rows[i].URL \in {all_urls[i], strip(all_urls[i])}

\* --------------------------------------------------------------- claim C28
\* C28: the session flags of app.py never strand the user: 'processing' and
\* 'completed' are never both true, and whenever no extraction loop is
\* executing, also after the script run was stopped inside the loop, either
\* the Start button (processing false and completed false) or the Reset
\* button (completed true) is offered.
C28_ButtonAlwaysOffered ==
    result.op = "app" =>
        /\ ~(result.session.processing /\ result.session.completed)
        /\ result.script = "idle" =>
              \/ ~result.session.processing /\ ~result.session.completed
              \/ result.session.completed

====
